---- MODULE Spec2Model ----
(***************************************************************************)
(* Model of the autoswap-rust-sdk encoding layer and its contract calls.   *)
(*                                                                         *)
(* Numbers are kept at their real width.  Every unsigned integer of the    *)
(* program is a little-endian sequence of bytes: a u128 is 16 bytes, a     *)
(* Felt (felt252 word) is 32 bytes, a u32 is 4 bytes.  Byte i (1-based)    *)
(* holds bits 8*(i-1) .. 8*i-1, so a shift by 64 bits moves 8 bytes and    *)
(* 2^128 is the Felt whose 17th byte is 1.  Strings are sequences of       *)
(* ASCII codes ("ETH" is <<69, 84, 72>>).                                  *)
(*                                                                         *)
(* Each action is one call of one operation of the library: it draws the   *)
(* arguments and the answers of the collaborators (the JSON-RPC provider,  *)
(* the account that signs and submits) and records what the call did.      *)
(***************************************************************************)
EXTENDS Integers, Sequences, FiniteSets, TLC

VARIABLES
    op,         \* the operation that was called
    input,      \* its arguments
    requests,   \* the read requests (FunctionCall + block tag) it sent to the provider
    responses,  \* the provider's answer to each request
    sent,       \* the transactions it handed to the account for submission
    result,     \* what it returned: Ok(value), Err(error) or a panic
    block_id,   \* the block id the account of an AutoSwappr is set to
    inflight,   \* the writes in flight on one client, by caller: where each is
    account_nonce   \* the nonce of the client's account on the chain

vars == <<op, input, requests, responses, sent, result, block_id, inflight, account_nonce>>

(***************************************************************************)
(* Bounds of the model.                                                    *)
(***************************************************************************)
MaxRoutes == 2      \* longest route list given to avnu_swap
MaxParams == 2      \* longest additional_swap_params list of a route
MaxResp == 8        \* longest answer to contract_parameters, in words
MaxReadWords == 2   \* longest answer to the other reads, in words

(***************************************************************************)
(* Widths of the integer types, in bytes.                                  *)
(***************************************************************************)
U8Bytes == 1
U16Bytes == 2
U32Bytes == 4
U128Bytes == 16
FeltBytes == 32

(***************************************************************************)
(* Byte-sequence arithmetic.                                               *)
(***************************************************************************)
Zeros(n) == [i \in 1..n |-> 0]

\* zero-extension or truncation of a little-endian number to n bytes
Resize(bs, n) == [i \in 1..n |-> IF i <= Len(bs) THEN bs[i] ELSE 0]

\* the little-endian bytes of a natural number below 2^31
NatBytes(n, len) ==
    [i \in 1..len |-> IF i = 1 THEN n % 256
                      ELSE IF i = 2 THEN (n \div 256) % 256
                      ELSE IF i = 3 THEN (n \div 65536) % 256
                      ELSE IF i = 4 THEN (n \div 16777216) % 256
                      ELSE 0]

\* TRUE iff the number fits in n bytes
FitsIn(bs, n) == \A i \in 1..Len(bs) : i > n => bs[i] = 0

IsZero(bs) == \A i \in 1..Len(bs) : bs[i] = 0

\* the number without its high zero bytes
RECURSIVE Trim(_)
Trim(bs) ==
    IF bs = <<>> THEN <<>>
    ELSE IF bs[Len(bs)] = 0 THEN Trim(SubSeq(bs, 1, Len(bs) - 1))
    ELSE bs

\* digits * m + c, for little-endian digits of the given base; the result is
\* as long as it needs to be
RECURSIVE MulAdd(_, _, _, _)
MulAdd(ds, base, m, c) ==
    IF ds = <<>>
    THEN IF c = 0 THEN <<>> ELSE <<c % base>> \o MulAdd(<<>>, base, m, c \div base)
    ELSE LET t == ds[1] * m + c
         IN  <<t % base>> \o MulAdd(Tail(ds), base, m, t \div base)

RECURSIVE Reverse(_)
Reverse(s) == IF s = <<>> THEN <<>> ELSE Reverse(Tail(s)) \o <<Head(s)>>

RECURSIVE BitAnd(_, _)
BitAnd(a, b) ==
    IF a = 0 \/ b = 0 THEN 0
    ELSE (a % 2) * (b % 2) + 2 * BitAnd(a \div 2, b \div 2)

RECURSIVE BitOr(_, _)
BitOr(a, b) ==
    IF a = 0 THEN b
    ELSE IF b = 0 THEN a
    ELSE (IF a % 2 = 1 \/ b % 2 = 1 THEN 1 ELSE 0) + 2 * BitOr(a \div 2, b \div 2)

\* the u128 operators &, |, >> and << (a shift by a multiple of 8 bits below
\* 128; << drops the bits shifted out of the 128, as Rust's << does)
U128And(a, b) == [i \in 1..U128Bytes |-> BitAnd(a[i], b[i])]
U128Or(a, b) == [i \in 1..U128Bytes |-> BitOr(a[i], b[i])]
U128Shr(v, bits) ==
    [i \in 1..U128Bytes |-> IF i + bits \div 8 <= U128Bytes THEN v[i + bits \div 8] ELSE 0]
U128Shl(v, bits) ==
    [i \in 1..U128Bytes |-> IF i - bits \div 8 >= 1 THEN v[i - bits \div 8] ELSE 0]

\* the literal 0xFFFFFFFFFFFFFFFF as a u128
MASK_FFFFFFFFFFFFFFFF == [i \in 1..U128Bytes |-> IF i <= 8 THEN 255 ELSE 0]

(***************************************************************************)
(* Felt conversions of the starknet crate that the code calls.             *)
(***************************************************************************)
\* Felt::from(x) for an unsigned integer x of any width up to 128 bits
FeltFrom(x) == Resize(x, FeltBytes)

\* Felt::from(n) for a small native integer (a usize length, a literal)
FeltFromNat(n) == NatBytes(n, FeltBytes)

FELT_ZERO == Zeros(FeltBytes)

\* felt.try_into::<uN>().unwrap_or(default)
TryIntoOr(felt, width, default) ==
    IF FitsIn(felt, width) THEN Resize(felt, width) ELSE default

\* the digits of a number in another base: ds are its little-endian digits
\* in base `from`, the result its little-endian digits in base `to`, without
\* high zeros (the empty sequence for zero)
RECURSIVE ToBase(_, _, _)
ToBase(ds, from, to) ==
    IF ds = <<>> THEN <<>>
    ELSE MulAdd(ToBase(Tail(ds), from, to), to, from, Head(ds))

(***************************************************************************)
(* Strings and the Felt <-> string conversions of the starknet crate.      *)
(***************************************************************************)
\* the character of a digit below 16, lower case
DigitChar(d) == IF d < 10 THEN 48 + d ELSE 87 + d

\* the text of a number from its little-endian digits: most significant
\* digit first, "0" for zero
DigitText(ds) ==
    IF ds = <<>> THEN <<48>>
    ELSE [i \in 1..Len(ds) |-> DigitChar(ds[Len(ds) + 1 - i])]

\* felt.to_string(): Felt's Display writes the value in decimal
felt_to_string(felt) == DigitText(ToBase(felt, 256, 10))

\* format!("0x{:x}", felt)
felt_lower_hex(felt) == <<48, 120>> \o DigitText(ToBase(felt, 256, 16))

IsDecDigit(c) == c >= 48 /\ c <= 57
IsHexDigit(c) == IsDecDigit(c) \/ (c >= 97 /\ c <= 102) \/ (c >= 65 /\ c <= 70)
HexValue(c) == IF IsDecDigit(c) THEN c - 48 ELSE IF c >= 97 THEN c - 87 ELSE c - 55

\* str.parse::<u128>(): decimal digits only, the value below 2^128
parse_u128(s) ==
    IF s = <<>> \/ \E i \in 1..Len(s) : ~IsDecDigit(s[i])
    THEN [ok |-> FALSE, value |-> Zeros(U128Bytes)]
    ELSE LET bytes == ToBase(Reverse([i \in 1..Len(s) |-> s[i] - 48]), 10, 256)
         IN  IF Len(bytes) > U128Bytes
             THEN [ok |-> FALSE, value |-> Zeros(U128Bytes)]
             ELSE [ok |-> TRUE, value |-> Resize(bytes, U128Bytes)]

\* the prime of the field, 2^251 + 17 * 2^192 + 1
PRIME == [i \in 1..FeltBytes |-> IF i = 1 THEN 1 ELSE IF i = 25 THEN 17
                                 ELSE IF i = 32 THEN 8 ELSE 0]

\* a < b for two numbers of the same number of bytes
BytesLt(a, b) ==
    \E i \in 1..Len(a) : a[i] < b[i] /\ \A j \in (i + 1)..Len(a) : a[j] = b[j]

\* the bytes of a number written with hexadecimal digits: two digits a byte,
\* the last two digits the lowest byte
HexBytes(body, len) ==
    LET n == Len(body)
        digit(k) == IF k >= 1 THEN HexValue(body[k]) ELSE 0
    IN  [i \in 1..len |-> IF n - 2 * (i - 1) >= 1
                          THEN digit(n - 2 * (i - 1)) + 16 * digit(n - 2 * (i - 1) - 1)
                          ELSE 0]

\* Felt::from_hex(s): an optional "0x" in front of at least one more
\* character, then hexadecimal digits only, at most 64 of them, spelling a
\* value of the field
from_hex(s) ==
    LET body == IF Len(s) > 2 /\ s[1] = 48 /\ s[2] = 120
                THEN SubSeq(s, 3, Len(s)) ELSE s
    IN  IF body = <<>> \/ Len(body) > 64 \/ \E i \in 1..Len(body) : ~IsHexDigit(body[i])
        THEN [ok |-> FALSE, value |-> FELT_ZERO]
        ELSE IF ~BytesLt(HexBytes(body, FeltBytes), PRIME)
        THEN [ok |-> FALSE, value |-> FELT_ZERO]
        ELSE [ok |-> TRUE, value |-> HexBytes(body, FeltBytes)]

(***************************************************************************)
(* Results.                                                                *)
(***************************************************************************)
Ok(v) == [kind |-> "Ok", error |-> "", value |-> v]
Err(e) == [kind |-> "Err", error |-> e, value |-> <<>>]
Panic == [kind |-> "Panic", error |-> "panic", value |-> <<>>]

(***************************************************************************)
(* conversions (contracts.rs) and constant::util.                          *)
(***************************************************************************)
\* a plausible bug: the high limb is forgotten when the value is rebuilt
uint256_to_u128_low_only(low, high) == TryIntoOr(low, U128Bytes, Zeros(U128Bytes))

conversions_u128_to_uint256(amount) ==
    LET amount_low == FeltFrom(U128And(amount, MASK_FFFFFFFFFFFFFFFF))
        amount_high == FeltFrom(U128Shr(amount, 64))
    IN  <<amount_low, amount_high>>

util_u128_to_uint256(amount) ==
    LET amount_low == FeltFrom(U128And(amount, MASK_FFFFFFFFFFFFFFFF))
        amount_high == FeltFrom(U128Shr(amount, 64))
    IN  <<amount_low, amount_high>>

uint256_to_u128(low, high) ==
    LET low_u128 == TryIntoOr(low, U128Bytes, Zeros(U128Bytes))
        high_u128 == TryIntoOr(high, U128Bytes, Zeros(U128Bytes))
    IN  U128Or(low_u128, U128Shl(high_u128, 64))

(***************************************************************************)
(* Sample values.                                                          *)
(***************************************************************************)
U128_MAX == [i \in 1..U128Bytes |-> 255]

\* 10^18 = 0x0DE0B6B3A7640000
ONE_ETH == Resize(<<0, 0, 100, 167, 179, 182, 224, 13>>, U128Bytes)

\* u128 values around the 64-bit boundary and at both ends of the range
U128Edge ==
    { [i \in 1..U128Bytes |-> IF i = 1 THEN a ELSE IF i = 8 THEN b
                              ELSE IF i = 9 THEN c ELSE IF i = 16 THEN d ELSE 0] :
        a \in {0, 1, 255}, b \in {0, 255}, c \in {0, 1, 255}, d \in {0, 128} }

U128Inputs == U128Edge \cup {U128_MAX, ONE_ETH}

\* 2^64 and 2^128 as words
TWO_64 == [i \in 1..FeltBytes |-> IF i = 9 THEN 1 ELSE 0]
TWO_128 == [i \in 1..FeltBytes |-> IF i = 17 THEN 1 ELSE 0]

Words ==
    { FeltFromNat(0), FeltFromNat(1), FeltFromNat(2), FeltFromNat(100),
      FeltFromNat(255), FeltFromNat(256), FeltFromNat(65535), FeltFromNat(65536),
      TWO_64, FeltFrom(U128_MAX), TWO_128,
      [i \in 1..FeltBytes |-> IF i = 1 THEN 7 ELSE IF i = 31 THEN 3 ELSE 0] }

(***************************************************************************)
(* Initial state: nothing was called yet.                                  *)
(***************************************************************************)
\* the callers that share one client
Callers == {1, 2}

\* a caller that has not called
NotCalled == [pc |-> "idle", operation |-> "none", calls |-> <<>>, nonce |-> 0,
              result |-> Ok(<<>>)]

Init ==
    /\ op = "none"
    /\ input = <<>>
    /\ requests = <<>>
    /\ responses = <<>>
    /\ sent = <<>>
    /\ result = Ok(<<>>)
    /\ block_id = "Latest"
    /\ inflight = [c \in Callers |-> NotCalled]
    /\ account_nonce = 0

NoIO == requests' = <<>> /\ responses' = <<>> /\ sent' = <<>>

\* An operation keeps nothing from one call to the next but the block id
\* of the account, which AutoSwappr::ekubo_manual_swap sets; each call is
\* taken from the state in which no call was made.
Idle == op = "none"

(***************************************************************************)
(* The pure conversions, called on their own.                              *)
(***************************************************************************)
Call_conversions_u128_to_uint256 ==
    \E amount \in U128Inputs :
        /\ Idle
        /\ UNCHANGED <<block_id, inflight, account_nonce>>
        /\ op' = "conversions::u128_to_uint256"
        /\ input' = [amount |-> amount]
        /\ result' = Ok(conversions_u128_to_uint256(amount))
        /\ NoIO

Call_util_u128_to_uint256 ==
    \E amount \in U128Inputs :
        /\ Idle
        /\ UNCHANGED <<block_id, inflight, account_nonce>>
        /\ op' = "constant::u128_to_uint256"
        /\ input' = [amount |-> amount]
        /\ result' = Ok(util_u128_to_uint256(amount))
        /\ NoIO

Call_uint256_to_u128 ==
    \E low \in Words, high \in Words :
        /\ Idle
        /\ UNCHANGED <<block_id, inflight, account_nonce>>
        /\ op' = "conversions::uint256_to_u128"
        /\ input' = [low |-> low, high |-> high]
        /\ result' = Ok(uint256_to_u128(low, high))
        /\ NoIO

\* examples/demo.rs: split a u128 and rebuild it from the two limbs
Demo_conversion_functions ==
    \E test_amount \in U128Inputs :
        LET limbs == conversions_u128_to_uint256(test_amount)
            back_to_u128 == uint256_to_u128(limbs[1], limbs[2])
        IN  /\ Idle
            /\ UNCHANGED <<block_id, inflight, account_nonce>>
            /\ op' = "demo::conversion_functions"
            /\ input' = [test_amount |-> test_amount]
            /\ result' = Ok([low |-> limbs[1], high |-> limbs[2],
                             back_to_u128 |-> back_to_u128])
            /\ NoIO

(***************************************************************************)
(* The collaborators.                                                      *)
(***************************************************************************)
\* the address the contract objects were constructed with, and other addresses
SELF_ADDRESS == FeltFromNat(1365)
ADDR_123 == FeltFromNat(291)
ADDR_456 == FeltFromNat(1110)
ADDR_789 == FeltFromNat(1929)

\* a read request: provider.call(FunctionCall {..}, BlockId::Tag(tag))
FunctionCall(to, selector, calldata, tag) ==
    [contract_address |-> to, entry_point_selector |-> selector,
     calldata |-> calldata, block_id |-> tag]

\* the provider answers a request with an error or with a sequence of words
ProviderReplies(wordSeqs) ==
    {[ok |-> FALSE, words |-> <<>>]} \cup {[ok |-> TRUE, words |-> w] : w \in wordSeqs}

\* "ETH" = 0x455448
ETH_WORD == FeltFromNat(4543560)

ReadWords ==
    { FeltFromNat(0), FeltFromNat(1), FeltFromNat(18), ETH_WORD, TWO_64,
      FeltFrom(U128_MAX), TWO_128 }

\* the answers to a read of a token contract: up to MaxReadWords words
ShortResponses == UNION {[1..n -> ReadWords] : n \in 0..MaxReadWords}

\* the words of test_contract_parameters_parsing
ContractParametersFixture ==
    << FeltFromNat(12345), FeltFromNat(23456), FeltFromNat(34567), FeltFromNat(45678),
       FeltFromNat(56789), FeltFromNat(0), FeltFromNat(100) >>

FixturePrefix(n) ==
    [i \in 1..n |-> IF i <= 7 THEN ContractParametersFixture[i] ELSE FeltFromNat(i)]

\* the answers to contract_parameters: the fixture cut or extended to every
\* length up to MaxResp, and each of them with one word replaced
ContractParametersResponses ==
    UNION { {FixturePrefix(n)} \cup
            {[FixturePrefix(n) EXCEPT ![i] = w] : i \in 1..n, w \in Words} :
            n \in 0..MaxResp }

(***************************************************************************)
(* AutoSwapprContract::get_contract_parameters                             *)
(***************************************************************************)
\* a plausible bug: the length check is off by one
decode_contract_parameters_off_by_one(words) ==
    IF Len(words) < 6 THEN Err("DeserializationError")
    ELSE IF Len(words) < 7 THEN Panic
    ELSE Ok([fees_collector |-> felt_to_string(words[1]),
             fibrous_exchange_address |-> felt_to_string(words[2]),
             avnu_exchange_address |-> felt_to_string(words[3]),
             oracle_address |-> felt_to_string(words[4]),
             owner |-> felt_to_string(words[5]),
             fee_type |-> IF TryIntoOr(words[6], U8Bytes, <<0>>) = <<1>>
                          THEN "Percentage" ELSE "Fixed",
             percentage_fee |-> TryIntoOr(words[7], U16Bytes, <<0, 0>>)])

\* a plausible bug: two fields are read from each other's position
decode_contract_parameters_swapped(words) ==
    IF Len(words) < 7 THEN Err("DeserializationError")
    ELSE Ok([fees_collector |-> felt_to_string(words[1]),
             fibrous_exchange_address |-> felt_to_string(words[2]),
             avnu_exchange_address |-> felt_to_string(words[3]),
             oracle_address |-> felt_to_string(words[5]),
             owner |-> felt_to_string(words[4]),
             fee_type |-> IF TryIntoOr(words[6], U8Bytes, <<0>>) = <<1>>
                          THEN "Percentage" ELSE "Fixed",
             percentage_fee |-> TryIntoOr(words[7], U16Bytes, <<0, 0>>)])

\* the parsing of the answer: words[k+1] is the code's result[k]
decode_contract_parameters(words) ==
    IF Len(words) < 7 THEN Err("DeserializationError")
    ELSE LET fee_type_raw == TryIntoOr(words[6], U8Bytes, <<0>>)
             fee_type == IF fee_type_raw = <<0>> THEN "Fixed"
                         ELSE IF fee_type_raw = <<1>> THEN "Percentage"
                         ELSE "Fixed"
             percentage_fee == TryIntoOr(words[7], U16Bytes, <<0, 0>>)
         IN  Ok([fees_collector |-> felt_to_string(words[1]),
                 fibrous_exchange_address |-> felt_to_string(words[2]),
                 avnu_exchange_address |-> felt_to_string(words[3]),
                 oracle_address |-> felt_to_string(words[4]),
                 owner |-> felt_to_string(words[5]),
                 fee_type |-> fee_type,
                 percentage_fee |-> percentage_fee])

AutoSwapprContract_get_contract_parameters ==
    \E reply \in ProviderReplies(ContractParametersResponses) :
        /\ Idle
        /\ UNCHANGED <<block_id, inflight, account_nonce>>
        /\ op' = "AutoSwapprContract::get_contract_parameters"
        /\ input' = <<>>
        /\ requests' = <<FunctionCall(SELF_ADDRESS, "contract_parameters", <<>>, "Latest")>>
        /\ responses' = <<reply>>
        /\ sent' = <<>>
        /\ result' = IF ~reply.ok THEN Err("ProviderError")
                     ELSE decode_contract_parameters(reply.words)

(***************************************************************************)
(* AutoSwapprContract::get_token_amount_in_usd                             *)
(***************************************************************************)
\* StarknetUint256 { low, high } of two u128
Uint256(low, high) == [low |-> low, high |-> high]

\* Uint256 arguments: an amount below 2^64, one above, and a set high field
Uint256Inputs ==
    { Uint256(low, high) :
        low \in {ONE_ETH, U128Shl(Resize(<<1>>, U128Bytes), 64)},
        high \in {Zeros(U128Bytes), Resize(<<1>>, U128Bytes)} }

\* result.get(k).copied().unwrap_or(Felt::ZERO), for words[k+1]
GetOrZero(words, k) == IF k < Len(words) THEN words[k + 1] ELSE FELT_ZERO

decode_token_amount_in_usd(words) ==
    LET usd_amount_low == GetOrZero(words, 0)
        usd_amount_high == GetOrZero(words, 1)
    IN  Ok(Uint256(TryIntoOr(usd_amount_low, U128Bytes, Zeros(U128Bytes)),
                   TryIntoOr(usd_amount_high, U128Bytes, Zeros(U128Bytes))))

AutoSwapprContract_get_token_amount_in_usd ==
    \E token \in {ADDR_123}, token_amount \in Uint256Inputs,
       reply \in ProviderReplies(ShortResponses) :
        LET limbs == conversions_u128_to_uint256(token_amount.low)
        IN  /\ Idle
            /\ UNCHANGED <<block_id, inflight, account_nonce>>
            /\ op' = "AutoSwapprContract::get_token_amount_in_usd"
            /\ input' = [token |-> token, token_amount |-> token_amount]
            /\ requests' = <<FunctionCall(SELF_ADDRESS, "get_token_amount_in_usd",
                                          <<token, limbs[1], limbs[2]>>, "Latest")>>
            /\ responses' = <<reply>>
            /\ sent' = <<>>
            /\ result' = IF ~reply.ok THEN Err("ProviderError")
                         ELSE decode_token_amount_in_usd(reply.words)

(***************************************************************************)
(* conversions::felt_to_ascii_string                                       *)
(***************************************************************************)
\* the loop over the low bytes: `left` iterations remain, `bytes` is the Vec
RECURSIVE ascii_bytes(_, _, _)
ascii_bytes(temp, left, bytes) ==
    IF left = 0 THEN bytes
    ELSE LET byte == U128And(temp, Resize(<<255>>, U128Bytes))[1]
         IN  IF byte = 0 THEN bytes
             ELSE ascii_bytes(U128Shr(temp, 8), left - 1,
                              IF byte >= 32 /\ byte <= 126
                              THEN Append(bytes, byte) ELSE bytes)

\* String::from_utf8 accepts a sequence of bytes below 128 as it is
IsAscii(bytes) == \A i \in 1..Len(bytes) : bytes[i] < 128

\* a plausible bug: the collected bytes are not reversed
felt_to_ascii_string_not_reversed(felt) ==
    LET felt_value == TryIntoOr(felt, U128Bytes, Zeros(U128Bytes))
        bytes == ascii_bytes(felt_value, 8, <<>>)
    IN  IF IsAscii(bytes) THEN bytes ELSE felt_lower_hex(felt)

felt_to_ascii_string(felt) ==
    LET felt_value == TryIntoOr(felt, U128Bytes, Zeros(U128Bytes))
        bytes == Reverse(ascii_bytes(felt_value, 8, <<>>))
    IN  IF IsAscii(bytes) THEN bytes ELSE felt_lower_hex(felt)

(***************************************************************************)
(* Erc20Contract: the reads                                                *)
(***************************************************************************)
\* the token contract the Erc20Contract object was constructed with
TOKEN_ADDRESS == FeltFromNat(3054)

\* the parsing shared in shape by allowance and balance_of: the first word,
\* narrowed to u128, split into limbs and narrowed again
decode_allowance(allowance) ==
    IF Len(allowance) < 1 THEN Panic
    ELSE LET allowance_value == allowance[1]
             allowance_u128 == TryIntoOr(allowance_value, U128Bytes, Zeros(U128Bytes))
             limbs == conversions_u128_to_uint256(allowance_u128)
         IN  Ok(Uint256(TryIntoOr(limbs[1], U128Bytes, Zeros(U128Bytes)),
                        TryIntoOr(limbs[2], U128Bytes, Zeros(U128Bytes))))

decode_balance_of(balance) ==
    IF Len(balance) < 1 THEN Panic
    ELSE LET balance_value == balance[1]
             balance_u128 == TryIntoOr(balance_value, U128Bytes, Zeros(U128Bytes))
             limbs == conversions_u128_to_uint256(balance_u128)
         IN  Ok(Uint256(TryIntoOr(limbs[1], U128Bytes, Zeros(U128Bytes)),
                        TryIntoOr(limbs[2], U128Bytes, Zeros(U128Bytes))))

decode_decimals(decimals) ==
    IF Len(decimals) < 1 THEN Panic
    ELSE Ok(TryIntoOr(decimals[1], U8Bytes, <<18>>))

decode_symbol(symbol) ==
    IF Len(symbol) < 1 THEN Panic
    ELSE Ok(felt_to_ascii_string(symbol[1]))

decode_name(name) ==
    IF Len(name) < 1 THEN Panic
    ELSE Ok(felt_to_ascii_string(name[1]))

Erc20Contract_allowance ==
    \E owner \in {ADDR_123}, spender \in {SELF_ADDRESS},
       reply \in ProviderReplies(ShortResponses) :
        /\ Idle
        /\ UNCHANGED <<block_id, inflight, account_nonce>>
        /\ op' = "Erc20Contract::allowance"
        /\ input' = [owner |-> owner, spender |-> spender]
        /\ requests' = <<FunctionCall(TOKEN_ADDRESS, "allowance", <<owner, spender>>, "Latest")>>
        /\ responses' = <<reply>>
        /\ sent' = <<>>
        /\ result' = IF ~reply.ok THEN Err("ProviderError") ELSE decode_allowance(reply.words)

Erc20Contract_balance_of ==
    \E account \in {ADDR_123}, reply \in ProviderReplies(ShortResponses) :
        /\ Idle
        /\ UNCHANGED <<block_id, inflight, account_nonce>>
        /\ op' = "Erc20Contract::balance_of"
        /\ input' = [account |-> account]
        /\ requests' = <<FunctionCall(TOKEN_ADDRESS, "balance_of", <<account>>, "Latest")>>
        /\ responses' = <<reply>>
        /\ sent' = <<>>
        /\ result' = IF ~reply.ok THEN Err("ProviderError") ELSE decode_balance_of(reply.words)

Erc20Contract_decimals ==
    \E reply \in ProviderReplies(ShortResponses) :
        /\ Idle
        /\ UNCHANGED <<block_id, inflight, account_nonce>>
        /\ op' = "Erc20Contract::decimals"
        /\ input' = <<>>
        /\ requests' = <<FunctionCall(TOKEN_ADDRESS, "decimals", <<>>, "Latest")>>
        /\ responses' = <<reply>>
        /\ sent' = <<>>
        /\ result' = IF ~reply.ok THEN Err("ProviderError") ELSE decode_decimals(reply.words)

Erc20Contract_symbol ==
    \E reply \in ProviderReplies(ShortResponses) :
        /\ Idle
        /\ UNCHANGED <<block_id, inflight, account_nonce>>
        /\ op' = "Erc20Contract::symbol"
        /\ input' = <<>>
        /\ requests' = <<FunctionCall(TOKEN_ADDRESS, "symbol", <<>>, "Latest")>>
        /\ responses' = <<reply>>
        /\ sent' = <<>>
        /\ result' = IF ~reply.ok THEN Err("ProviderError") ELSE decode_symbol(reply.words)

Erc20Contract_name ==
    \E reply \in ProviderReplies(ShortResponses) :
        /\ Idle
        /\ UNCHANGED <<block_id, inflight, account_nonce>>
        /\ op' = "Erc20Contract::name"
        /\ input' = <<>>
        /\ requests' = <<FunctionCall(TOKEN_ADDRESS, "name", <<>>, "Latest")>>
        /\ responses' = <<reply>>
        /\ sent' = <<>>
        /\ result' = IF ~reply.ok THEN Err("ProviderError") ELSE decode_name(reply.words)

(***************************************************************************)
(* AutoSwappr::get_allowance (swappr.rs)                                   *)
(***************************************************************************)
\* "0x123", and a string that is no hexadecimal number
STR_0x123 == <<48, 120, 49, 50, 51>>
STR_invalid == <<105, 110, 118, 97, 108, 105, 100>>

AutoSwappr_get_allowance ==
    \E owner \in {STR_0x123, STR_invalid}, token \in {TOKEN_ADDRESS},
       reply \in ProviderReplies(ShortResponses) :
        LET owner_felt == from_hex(owner)
            spender == SELF_ADDRESS
            parsed == parse_u128(felt_to_string(reply.words[1]))
        IN  /\ Idle
            /\ UNCHANGED <<block_id, inflight, account_nonce>>
            /\ op' = "AutoSwappr::get_allowance"
            /\ input' = [owner |-> owner, token |-> token]
            /\ sent' = <<>>
            /\ IF ~owner_felt.ok
               THEN \* .expect("OWNER ADDRESS NOT PROVIDED")
                    /\ requests' = <<>>
                    /\ responses' = <<>>
                    /\ result' = Panic
               ELSE /\ requests' = <<FunctionCall(token, "allowance",
                                                  <<owner_felt.value, spender>>, "Latest")>>
                    /\ responses' = <<reply>>
                    /\ result' = IF ~reply.ok THEN Err("provider error")
                                 ELSE IF Len(reply.words) < 1 THEN Panic
                                 ELSE IF ~parsed.ok THEN Err("parse error")
                                 ELSE Ok(parsed.value)

(***************************************************************************)
(* The account: account.execute_v3(calls).send()                           *)
(***************************************************************************)
Call(to, selector, calldata) == [to |-> to, selector |-> selector, calldata |-> calldata]

\* one transaction handed to the account, and whether the submission succeeded
Submission(calls, accepted) == [calls |-> calls, accepted |-> accepted]

\* the hash of an accepted transaction
TX_HASH == FeltFromNat(2748)

(***************************************************************************)
(* AutoSwapprContract::ekubo_swap and ekubo_manual_swap                    *)
(*                                                                         *)
(* The SwapData these two take is the one of client.rs and of the          *)
(* examples: amount.mag and sqrt_ratio_limit are Uint256 {low, high}, the  *)
(* addresses of the pool key and the caller are strings.                   *)
(***************************************************************************)
U128OfNat(n) == NatBytes(n, U128Bytes)
U32OfNat(n) == NatBytes(n, U32Bytes)

\* 18446748437148339061 = 0x1000003f7f1380b75, the default sqrt_ratio_limit
SQRT_RATIO_LIMIT == Resize(<<117, 11, 56, 241, 247, 3, 0, 0, 1>>, U128Bytes)

STR_0x456 == <<48, 120, 52, 53, 54>>
STR_0x789 == <<48, 120, 55, 56, 57>>
STR_0x0 == <<48, 120, 48>>

LegacySwapDatas ==
    { [params |-> [amount |-> [mag |-> Uint256(mag_low, mag_high), sign |-> sign],
                   sqrt_ratio_limit |-> Uint256(sqrt_low, sqrt_high),
                   is_token1 |-> is_token1,
                   skip_ahead |-> U32OfNat(skip_ahead)],
       pool_key |-> [token0 |-> token0, token1 |-> STR_0x456,
                     fee |-> U128OfNat(3000), tick_spacing |-> U32OfNat(60),
                     extension |-> STR_0x0],
       caller |-> caller] :
        mag_low \in {Zeros(U128Bytes), ONE_ETH, U128Shl(U128OfNat(1), 64), U128_MAX},
        mag_high \in {Zeros(U128Bytes), U128OfNat(1)},
        sign \in BOOLEAN,
        sqrt_low \in {Zeros(U128Bytes), SQRT_RATIO_LIMIT},
        sqrt_high \in {Zeros(U128Bytes), U128OfNat(1)},
        is_token1 \in BOOLEAN,
        skip_ahead \in {0, 5},
        token0 \in {STR_0x123, STR_invalid},
        caller \in {STR_0x789, STR_invalid} }

\* a plausible bug: is_token1 is pushed before sqrt_ratio_limit
ekubo_manual_swap_calldata_reordered(swap_data) ==
    LET amount == conversions_u128_to_uint256(swap_data.params.amount.mag.low)
        sqrt == conversions_u128_to_uint256(swap_data.params.sqrt_ratio_limit.low)
        token0 == from_hex(swap_data.pool_key.token0)
        token1 == from_hex(swap_data.pool_key.token1)
        extension == from_hex(swap_data.pool_key.extension)
        caller == from_hex(swap_data.caller)
    IN  IF ~token0.ok \/ ~token1.ok \/ ~extension.ok \/ ~caller.ok
        THEN [ok |-> FALSE, words |-> <<>>]
        ELSE [ok |-> TRUE,
              words |-> << amount[1], amount[2],
                           FeltFromNat(IF swap_data.params.amount.sign THEN 1 ELSE 0),
                           FeltFromNat(IF swap_data.params.is_token1 THEN 1 ELSE 0),
                           sqrt[1], sqrt[2],
                           FeltFrom(swap_data.params.skip_ahead),
                           token0.value, token1.value,
                           FeltFrom(swap_data.pool_key.fee),
                           FeltFrom(swap_data.pool_key.tick_spacing),
                           extension.value, caller.value >>]

\* the calldata of ekubo_swap, or the failure of an address to parse
ekubo_swap_calldata(swap_data) ==
    LET amount == conversions_u128_to_uint256(swap_data.params.amount.mag.low)
        sqrt == conversions_u128_to_uint256(swap_data.params.sqrt_ratio_limit.low)
        token0 == from_hex(swap_data.pool_key.token0)
        token1 == from_hex(swap_data.pool_key.token1)
        extension == from_hex(swap_data.pool_key.extension)
        caller == from_hex(swap_data.caller)
    IN  IF ~token0.ok \/ ~token1.ok \/ ~extension.ok \/ ~caller.ok
        THEN [ok |-> FALSE, words |-> <<>>]
        ELSE [ok |-> TRUE,
              words |-> << amount[1], amount[2],
                           FeltFromNat(IF swap_data.params.amount.sign THEN 1 ELSE 0),
                           sqrt[1], sqrt[2],
                           FeltFromNat(IF swap_data.params.is_token1 THEN 1 ELSE 0),
                           FeltFrom(swap_data.params.skip_ahead),
                           token0.value, token1.value,
                           FeltFrom(swap_data.pool_key.fee),
                           FeltFrom(swap_data.pool_key.tick_spacing),
                           extension.value, caller.value >>]

\* the calldata of ekubo_manual_swap: the same statements, written again
ekubo_manual_swap_calldata(swap_data) ==
    LET amount == conversions_u128_to_uint256(swap_data.params.amount.mag.low)
        sqrt == conversions_u128_to_uint256(swap_data.params.sqrt_ratio_limit.low)
        token0 == from_hex(swap_data.pool_key.token0)
        token1 == from_hex(swap_data.pool_key.token1)
        extension == from_hex(swap_data.pool_key.extension)
        caller == from_hex(swap_data.caller)
    IN  IF ~token0.ok \/ ~token1.ok \/ ~extension.ok \/ ~caller.ok
        THEN [ok |-> FALSE, words |-> <<>>]
        ELSE [ok |-> TRUE,
              words |-> << amount[1], amount[2],
                           FeltFromNat(IF swap_data.params.amount.sign THEN 1 ELSE 0),
                           sqrt[1], sqrt[2],
                           FeltFromNat(IF swap_data.params.is_token1 THEN 1 ELSE 0),
                           FeltFrom(swap_data.params.skip_ahead),
                           token0.value, token1.value,
                           FeltFrom(swap_data.pool_key.fee),
                           FeltFrom(swap_data.pool_key.tick_spacing),
                           extension.value, caller.value >>]

\* a plausible bug: a refused transaction is submitted a second time
SubmitOne_retry(selector, calldata, accepted) ==
    LET once == Submission(<<Call(SELF_ADDRESS, selector, calldata)>>, accepted)
    IN  /\ sent' = IF accepted THEN <<once>> ELSE <<once, once>>
        /\ result' = IF accepted THEN Ok(TX_HASH) ELSE Err("AccountError")

\* the end shared by every write: one call in one transaction, submitted once
SubmitOne(selector, calldata, accepted) ==
    /\ sent' = <<Submission(<<Call(SELF_ADDRESS, selector, calldata)>>, accepted)>>
    /\ result' = IF accepted THEN Ok(TX_HASH) ELSE Err("AccountError")

AutoSwapprContract_ekubo_swap ==
    \E swap_data \in LegacySwapDatas, accepted \in BOOLEAN :
        LET calldata == ekubo_swap_calldata(swap_data)
        IN  /\ Idle
            /\ UNCHANGED <<block_id, inflight, account_nonce>>
            /\ op' = "AutoSwapprContract::ekubo_swap"
            /\ input' = [swap_data |-> swap_data]
            /\ requests' = <<>>
            /\ responses' = <<>>
            /\ IF ~calldata.ok
               THEN sent' = <<>> /\ result' = Err("InvalidAddress")
               ELSE SubmitOne("ekubo_swap", calldata.words, accepted)

AutoSwapprContract_ekubo_manual_swap ==
    \E swap_data \in LegacySwapDatas, accepted \in BOOLEAN :
        LET calldata == ekubo_manual_swap_calldata(swap_data)
        IN  /\ Idle
            /\ UNCHANGED <<block_id, inflight, account_nonce>>
            /\ op' = "AutoSwapprContract::ekubo_manual_swap"
            /\ input' = [swap_data |-> swap_data]
            /\ requests' = <<>>
            /\ responses' = <<>>
            /\ IF ~calldata.ok
               THEN sent' = <<>> /\ result' = Err("InvalidAddress")
               ELSE SubmitOne("ekubo_manual_swap", calldata.words, accepted)

(***************************************************************************)
(* The derived Encode of connector.rs: fields in declaration order.        *)
(* A u128, a u32, a bool and a Felt are one word each; a U256 is its low   *)
(* 128 bits, then its high 128 bits.                                       *)
(***************************************************************************)
U256_encode(v) == <<FeltFrom(v.low), FeltFrom(v.high)>>
bool_encode(b) == <<FeltFromNat(IF b THEN 1 ELSE 0)>>

I129_encode(v) == <<FeltFrom(v.mag)>> \o bool_encode(v.sign)

SwapParameters_encode(v) ==
    I129_encode(v.amount) \o bool_encode(v.is_token1)
        \o U256_encode(v.sqrt_ratio_limit) \o <<FeltFrom(v.skip_ahead)>>

PoolKey_encode(v) ==
    <<v.token0, v.token1, FeltFrom(v.fee), FeltFrom(v.tick_spacing), v.extension>>

SwapData_encode(v) ==
    SwapParameters_encode(v.params) \o PoolKey_encode(v.pool_key) \o <<v.caller>>

\* SwapData values of connector.rs
SwapDatas ==
    { [params |-> [amount |-> [mag |-> mag, sign |-> sign],
                   is_token1 |-> is_token1,
                   sqrt_ratio_limit |-> sqrt,
                   skip_ahead |-> U32OfNat(skip_ahead)],
       pool_key |-> [token0 |-> ADDR_123, token1 |-> token1,
                     fee |-> U128OfNat(3000), tick_spacing |-> U128OfNat(60),
                     extension |-> FELT_ZERO],
       caller |-> ADDR_789] :
        mag \in {Zeros(U128Bytes), ONE_ETH, U128Shl(U128OfNat(1), 64), U128_MAX},
        sign \in BOOLEAN,
        is_token1 \in BOOLEAN,
        sqrt \in {Uint256(SQRT_RATIO_LIMIT, Zeros(U128Bytes)),
                  Uint256(Zeros(U128Bytes), U128OfNat(1))},
        skip_ahead \in {0, 5},
        token1 \in {ADDR_456, TWO_128} }

\* swap_data.encode(&mut serialized), as AutoSwappr::ekubo_manual_swap calls it
Call_SwapData_encode ==
    \E swap_data \in SwapDatas :
        /\ Idle
        /\ UNCHANGED <<block_id, inflight, account_nonce>>
        /\ op' = "SwapData::encode"
        /\ input' = [swap_data |-> swap_data]
        /\ result' = Ok(SwapData_encode(swap_data))
        /\ NoIO

(***************************************************************************)
(* AutoSwapprContract::avnu_swap                                           *)
(***************************************************************************)
\* additional_swap_params of every length up to MaxParams: the words 7 and
\* 2^128 in turn, starting with either
RouteParamLists ==
    { [i \in 1..n |-> IF (i + first) % 2 = 1 THEN FeltFromNat(7) ELSE TWO_128] :
        n \in 0..MaxParams, first \in {0, 1} }

Routes ==
    { [token_from |-> ADDR_123, token_to |-> ADDR_456, exchange_address |-> ADDR_789,
       percent |-> U128OfNat(100), additional_swap_params |-> params] :
        params \in RouteParamLists }

RouteLists == UNION {[1..n -> Routes] : n \in 0..MaxRoutes}

\* a plausible bug: the length of additional_swap_params is not written
serialize_routes_no_length(routes) ==
    LET RECURSIVE go(_)
        go(rs) ==
            IF rs = <<>> THEN <<>>
            ELSE << Head(rs).token_from, Head(rs).token_to, Head(rs).exchange_address,
                    FeltFrom(Head(rs).percent) >>
                 \o Head(rs).additional_swap_params \o go(Tail(rs))
    IN  go(routes)

\* a plausible bug: the length is pushed before percent instead of after it
serialize_routes_length_first(routes) ==
    LET RECURSIVE go(_)
        go(rs) ==
            IF rs = <<>> THEN <<>>
            ELSE << Head(rs).token_from, Head(rs).token_to, Head(rs).exchange_address,
                    FeltFromNat(Len(Head(rs).additional_swap_params)),
                    FeltFrom(Head(rs).percent) >>
                 \o Head(rs).additional_swap_params \o go(Tail(rs))
    IN  go(routes)

\* the loop over the routes: each pushes its four fields, the length of its
\* additional_swap_params and then each of them
serialize_routes(routes) ==
    LET RECURSIVE go(_)
        go(rs) ==
            IF rs = <<>> THEN <<>>
            ELSE << Head(rs).token_from, Head(rs).token_to, Head(rs).exchange_address,
                    FeltFrom(Head(rs).percent),
                    FeltFromNat(Len(Head(rs).additional_swap_params)) >>
                 \o Head(rs).additional_swap_params \o go(Tail(rs))
    IN  go(routes)

avnu_swap_calldata(a) ==
    LET token_from == conversions_u128_to_uint256(a.token_from_amount.low)
        token_to_min == conversions_u128_to_uint256(a.token_to_min_amount.low)
    IN  << a.protocol_swapper, a.token_from_address, token_from[1], token_from[2],
           a.token_to_address, token_to_min[1], token_to_min[2], a.beneficiary,
           FeltFrom(a.integrator_fee_amount_bps), a.integrator_fee_recipient >>
        \o <<FeltFromNat(Len(a.routes))>>
        \o serialize_routes(a.routes)

AutoSwapprContract_avnu_swap ==
    \E token_from_amount \in {Uint256(ONE_ETH, Zeros(U128Bytes)),
                              Uint256(U128_MAX, U128OfNat(1))},
       routes \in RouteLists, accepted \in BOOLEAN :
        LET a == [protocol_swapper |-> FeltFromNat(11),
                  token_from_address |-> ADDR_123,
                  token_from_amount |-> token_from_amount,
                  token_to_address |-> ADDR_456,
                  token_to_min_amount |-> Uint256(U128OfNat(1), Zeros(U128Bytes)),
                  beneficiary |-> FeltFromNat(12),
                  integrator_fee_amount_bps |-> U128OfNat(30),
                  integrator_fee_recipient |-> FeltFromNat(13),
                  routes |-> routes]
        IN  /\ Idle
            /\ UNCHANGED <<block_id, inflight, account_nonce>>
            /\ op' = "AutoSwapprContract::avnu_swap"
            /\ input' = a
            /\ requests' = <<>>
            /\ responses' = <<>>
            /\ SubmitOne("avnu_swap", avnu_swap_calldata(a), accepted)

(***************************************************************************)
(* FeeType (connector.rs)                                                  *)
(***************************************************************************)
FeeTypes == {"Fixed", "Percentage"}

\* every u8
U8Values == [1..U8Bytes -> 0..255]

FeeType_to_u8(self) == IF self = "Fixed" THEN <<0>> ELSE <<1>>

\* a plausible bug: unknown bytes read as Fixed
FeeType_from_u8_unknown_is_fixed(value) ==
    IF value = <<1>> THEN "Percentage" ELSE "Fixed"

FeeType_from_u8(value) == IF value = <<0>> THEN "Fixed" ELSE "Percentage"

Call_FeeType_to_u8 ==
    \E self \in FeeTypes :
        /\ Idle
        /\ UNCHANGED <<block_id, inflight, account_nonce>>
        /\ op' = "FeeType::to_u8"
        /\ input' = [self |-> self]
        /\ result' = Ok(FeeType_to_u8(self))
        /\ NoIO

Call_FeeType_from_u8 ==
    \E value \in U8Values :
        /\ Idle
        /\ UNCHANGED <<block_id, inflight, account_nonce>>
        /\ op' = "FeeType::from_u8"
        /\ input' = [value |-> value]
        /\ result' = Ok(FeeType_from_u8(value))
        /\ NoIO

(***************************************************************************)
(* conversions::is_valid_address                                           *)
(***************************************************************************)
\* str::starts_with
starts_with(s, prefix) ==
    Len(s) >= Len(prefix) /\ SubSeq(s, 1, Len(prefix)) = prefix

STR_0x == <<48, 120>>

\* "0x" and 64 digits: the first 16 digits are 0800000000000011, the last
\* digit is `last`, the others 0
HexOf64(last) ==
    STR_0x \o [i \in 1..64 |-> IF i = 2 THEN 56 ELSE IF i \in {15, 16} THEN 49
                               ELSE IF i = 64 THEN last ELSE 48]

AddressStrings ==
    { <<48, 120, 49, 50, 51, 52>>,          \* "0x1234"
      <<49, 50, 51, 52>>,                    \* "1234"
      STR_0x,                                \* "0x"
      <<>>,                                  \* ""
      STR_0x0, STR_0x123, STR_invalid,
      <<48, 120, 103, 49>>,                  \* "0xg1"
      <<48, 88, 49, 50>>,                    \* "0X12"
      <<48, 120, 65, 98>>,                   \* "0xAb"
      <<48, 120, 48, 120, 49, 50>>,          \* "0x0x12"
      <<48>>, <<120>>, <<97, 98, 99>>,       \* "0", "x", "abc"
      <<48, 120, 32, 49>>,                   \* "0x 1"
      HexOf64(48),                           \* the prime - 1
      HexOf64(50),                           \* the prime + 1
      STR_0x \o [i \in 1..64 |-> 102],       \* 2^256 - 1
      STR_0x \o [i \in 1..64 |-> 48],        \* 0 in 64 digits
      STR_0x \o [i \in 1..65 |-> 49] }       \* 65 digits

\* a plausible bug: the prefix is not required
is_valid_address_prefix_optional(address) ==
    from_hex(address).ok

is_valid_address(address) ==
    IF Len(address) < 3 \/ ~starts_with(address, STR_0x)
    THEN FALSE
    ELSE from_hex(address).ok

Call_is_valid_address ==
    \E address \in AddressStrings :
        /\ Idle
        /\ UNCHANGED <<block_id, inflight, account_nonce>>
        /\ op' = "conversions::is_valid_address"
        /\ input' = [address |-> address]
        /\ result' = Ok(is_valid_address(address))
        /\ NoIO

(***************************************************************************)
(* conversions::felt_to_ascii_string, called on its own                    *)
(***************************************************************************)
\* the word that holds a short string: its first character is the highest
\* of the bytes used
ShortStringWord(str) == Resize(Reverse(str), FeltBytes)

STR_ETH == <<69, 84, 72>>
STR_Ether == <<69, 116, 104, 101, 114>>

AsciiStrings ==
    { STR_ETH, STR_Ether, <<65>>, <<32>>, <<126>>, <<32, 126>>, <<85, 83, 68, 67>>,
      <<65, 66, 67, 68, 69, 70, 71, 72>>,          \* 8 characters
      <<126, 32, 32, 32, 32, 32, 32, 33>>,
      <<65, 66, 67, 68, 69, 70, 71, 72, 73>>,      \* 9 characters
      <<69, 0, 72>>,                               \* a zero byte inside
      <<69, 72, 0>>,                               \* the lowest byte zero
      <<69, 10, 72>>, <<200, 69>>, <<1>>, <<128>>, <<31>>, <<127>> }

AsciiWords ==
    {ShortStringWord(str) : str \in AsciiStrings}
        \cup {FELT_ZERO, TWO_64, TWO_128, FeltFrom(U128_MAX),
              [i \in 1..FeltBytes |-> IF i = 1 THEN 69 ELSE IF i = 17 THEN 1 ELSE 0]}

Call_felt_to_ascii_string ==
    \E felt \in AsciiWords :
        /\ Idle
        /\ UNCHANGED <<block_id, inflight, account_nonce>>
        /\ op' = "conversions::felt_to_ascii_string"
        /\ input' = [felt |-> felt]
        /\ result' = Ok(felt_to_ascii_string(felt))
        /\ NoIO

(***************************************************************************)
(* The token addresses of constant/mod.rs: each is the text in the source  *)
(* read by Felt::from_hex.                                                 *)
(***************************************************************************)
\* "0x04718f5a0fc34cc1af16a1cdee98ffb20c31f5cd61d6ab07201858f4287c938d"
STRK_HEX ==
    << 48, 120, 48, 52, 55, 49, 56, 102, 53, 97, 48, 102, 99, 51, 52, 99, 99, 49, 97, 102, 49,
       54, 97, 49, 99, 100, 101, 101, 57, 56, 102, 102, 98, 50, 48, 99, 51, 49, 102, 53, 99,
       100, 54, 49, 100, 54, 97, 98, 48, 55, 50, 48, 49, 56, 53, 56, 102, 52, 50, 56, 55, 99,
       57, 51, 56, 100 >>

\* "0x049d36570d4e46f48e99674bd3fcc84644ddd6b96f7c741b1562b82f9e004dc7"
ETH_HEX ==
    << 48, 120, 48, 52, 57, 100, 51, 54, 53, 55, 48, 100, 52, 101, 52, 54, 102, 52, 56, 101,
       57, 57, 54, 55, 52, 98, 100, 51, 102, 99, 99, 56, 52, 54, 52, 52, 100, 100, 100, 54, 98,
       57, 54, 102, 55, 99, 55, 52, 49, 98, 49, 53, 54, 50, 98, 56, 50, 102, 57, 101, 48, 48,
       52, 100, 99, 55 >>

\* "0x053c91253bc9682c04929ca02ed00b3e423f6710d2ee7e0d5ebb06f3ecf368a8"
USDC_HEX ==
    << 48, 120, 48, 53, 51, 99, 57, 49, 50, 53, 51, 98, 99, 57, 54, 56, 50, 99, 48, 52, 57, 50,
       57, 99, 97, 48, 50, 101, 100, 48, 48, 98, 51, 101, 52, 50, 51, 102, 54, 55, 49, 48, 100,
       50, 101, 101, 55, 101, 48, 100, 53, 101, 98, 98, 48, 54, 102, 51, 101, 99, 102, 51, 54,
       56, 97, 56 >>

\* "0x068f5c6a61780768455de69077e07e89787839bf8166decfbf92b645209c0fb8"
USDT_HEX ==
    << 48, 120, 48, 54, 56, 102, 53, 99, 54, 97, 54, 49, 55, 56, 48, 55, 54, 56, 52, 53, 53,
       100, 101, 54, 57, 48, 55, 55, 101, 48, 55, 101, 56, 57, 55, 56, 55, 56, 51, 57, 98, 102,
       56, 49, 54, 54, 100, 101, 99, 102, 98, 102, 57, 50, 98, 54, 52, 53, 50, 48, 57, 99, 48,
       102, 98, 56 >>

\* "0x03fe2b97c1fd336e750087d68b9b867997fd64a2661ff3ca5a7c771641e8e7ac"
WBTC_HEX ==
    << 48, 120, 48, 51, 102, 101, 50, 98, 57, 55, 99, 49, 102, 100, 51, 51, 54, 101, 55, 53,
       48, 48, 56, 55, 100, 54, 56, 98, 57, 98, 56, 54, 55, 57, 57, 55, 102, 100, 54, 52, 97,
       50, 54, 54, 49, 102, 102, 51, 99, 97, 53, 97, 55, 99, 55, 55, 49, 54, 52, 49, 101, 56,
       101, 55, 97, 99 >>

STRK == from_hex(STRK_HEX).value
ETH == from_hex(ETH_HEX).value
USDC == from_hex(USDC_HEX).value
USDT == from_hex(USDT_HEX).value
WBTC == from_hex(WBTC_HEX).value

\* the addresses PoolKey::new and the swaps are called with
PoolTokens == {ETH, USDC, USDT, WBTC, STRK, ADDR_123, ADDR_456, FELT_ZERO}

(***************************************************************************)
(* The constructors of connector.rs                                        *)
(***************************************************************************)
\* the literal 170141183460469235273462165868118016
FEE_USDC_TEXT ==
    << 49, 55, 48, 49, 52, 49, 49, 56, 51, 52, 54, 48, 52, 54, 57, 50, 51, 53, 50, 55, 51, 52,
       54, 50, 49, 54, 53, 56, 54, 56, 49, 49, 56, 48, 49, 54 >>

\* the literal 3402823669209384634633746074317682114
FEE_USDT_TEXT ==
    << 51, 52, 48, 50, 56, 50, 51, 54, 54, 57, 50, 48, 57, 51, 56, 52, 54, 51, 52, 54, 51, 51,
       55, 52, 54, 48, 55, 52, 51, 49, 55, 54, 56, 50, 49, 49, 52 >>

\* a plausible bug: the table is looked up with token0
PoolKey_new_by_token0(token0, token1) ==
    LET fee_tick == IF token0 = USDC
                    THEN <<parse_u128(FEE_USDC_TEXT).value, U128OfNat(1000)>>
                    ELSE IF token0 = USDT
                    THEN <<parse_u128(FEE_USDT_TEXT).value, U128OfNat(19802)>>
                    ELSE <<U128OfNat(0), U128OfNat(0)>>
    IN  [token0 |-> token0, token1 |-> token1, fee |-> fee_tick[1],
         tick_spacing |-> fee_tick[2], extension |-> FELT_ZERO]

PoolKey_new(token0, token1) ==
    LET fee_tick == IF token1 = USDC
                    THEN <<parse_u128(FEE_USDC_TEXT).value, U128OfNat(1000)>>
                    ELSE IF token1 = USDT
                    THEN <<parse_u128(FEE_USDT_TEXT).value, U128OfNat(19802)>>
                    ELSE <<U128OfNat(0), U128OfNat(0)>>
    IN  [token0 |-> token0, token1 |-> token1, fee |-> fee_tick[1],
         tick_spacing |-> fee_tick[2], extension |-> FELT_ZERO]

I129_new(mag, sign) == [mag |-> mag, sign |-> sign]

SwapParameters_new(amount, is_token1) ==
    [amount |-> amount, is_token1 |-> is_token1,
     sqrt_ratio_limit |-> Uint256(SQRT_RATIO_LIMIT, Zeros(U128Bytes)),
     skip_ahead |-> U32OfNat(0)]

SwapData_new(params, pool_key, caller) ==
    [params |-> params, pool_key |-> pool_key, caller |-> caller]

Call_PoolKey_new ==
    \E token0 \in PoolTokens, token1 \in PoolTokens :
        /\ Idle
        /\ UNCHANGED <<block_id, inflight, account_nonce>>
        /\ op' = "PoolKey::new"
        /\ input' = [token0 |-> token0, token1 |-> token1]
        /\ result' = Ok(PoolKey_new(token0, token1))
        /\ NoIO

(***************************************************************************)
(* AutoSwappr::ekubo_manual_swap (swappr.rs)                               *)
(***************************************************************************)
\* the AutoSwappr that config built: its account_address text, the address
\* of its account and its contract_address
ACCOUNT_ADDRESS_TEXT == STR_0x789
ACCOUNT_ADDRESS == from_hex(ACCOUNT_ADDRESS_TEXT).value
CONTRACT_ADDRESS == SELF_ADDRESS

\* TokenAddress::new(): the tokens in the order of the table
TokenAddress_new ==
    << [address |-> ETH, symbol |-> "ETH", decimals |-> 18],
       [address |-> USDC, symbol |-> "USDC", decimals |-> 6],
       [address |-> USDT, symbol |-> "USDT", decimals |-> 6],
       [address |-> WBTC, symbol |-> "WBTC", decimals |-> 8],
       [address |-> STRK, symbol |-> "STRK", decimals |-> 18] >>

\* tokens.iter().find(|x| x.address == address): the first match
get_token_info_by_address(address) ==
    LET found == {i \in 1..Len(TokenAddress_new) : TokenAddress_new[i].address = address}
    IN  IF found = {} THEN Err("TOKEN IS NOT AVAILABLE")
        ELSE Ok(TokenAddress_new[CHOOSE i \in found : \A j \in found : i <= j])

\* n * 10^k, with as many bytes as the product needs
RECURSIVE MulPow10(_, _)
MulPow10(n, k) ==
    IF k = 0 THEN n ELSE MulPow10(MulAdd(n, 256, 10, 0), k - 1)

\* what AutoSwappr::get_allowance returns for the provider's reply
get_allowance_of(reply) ==
    LET parsed == parse_u128(felt_to_string(reply.words[1]))
    IN  IF ~reply.ok THEN Err("provider error")
        ELSE IF Len(reply.words) < 1 THEN Panic
        ELSE IF ~parsed.ok THEN Err("parse error")
        ELSE Ok(parsed.value)

\* the replies to the allowance request of a swap
AllowanceReplies ==
    ProviderReplies({ <<>>, <<FELT_ZERO>>, <<FeltFrom(ONE_ETH)>>, <<FeltFrom(U128_MAX)>>,
                      <<TWO_128>>, <<FeltFromNat(1), FELT_ZERO>> })

SwapAmounts ==
    { U128OfNat(0), U128OfNat(1), U128OfNat(5), U128OfNat(100),
      U128Shl(U128OfNat(1), 72), U128_MAX }

\* the steps of ekubo_manual_swap after the check of swap_amount; checked
\* tells whether the build panics on arithmetic overflow (a debug build) or
\* wraps (a release build)
ekubo_manual_swap_steps(token0, token1, swap_amount, reply, accepted, checked) ==
    LET allowance == get_allowance_of(reply)
        token == get_token_info_by_address(token0)
        product == MulPow10(swap_amount, token.value.decimals)
        actual_amount == Resize(product, U128Bytes)
        amount == util_u128_to_uint256(actual_amount)
        pool_key == PoolKey_new(token0, token1)
        swap_parameters == SwapParameters_new(I129_new(actual_amount, FALSE), FALSE)
        swap_data == SwapData_new(swap_parameters, pool_key, ACCOUNT_ADDRESS)
        serialized == SwapData_encode(swap_data)
        approve_call == Call(token0, "approve", <<CONTRACT_ADDRESS, amount[1], amount[2]>>)
        swap_call == Call(CONTRACT_ADDRESS, "ekubo_manual_swap", serialized)
        calls == IF ~BytesLt(allowance.value, actual_amount)
                 THEN <<swap_call>> ELSE <<approve_call, swap_call>>
        stopped == [sent |-> <<>>, result |-> Panic, block_id |-> block_id]
    IN  IF allowance.kind # "Ok" THEN stopped                 \* .unwrap()
        ELSE IF token.kind # "Ok" THEN stopped                \* .unwrap()
        ELSE IF checked /\ ~FitsIn(product, U128Bytes) THEN stopped
        ELSE [sent |-> <<Submission(calls, accepted)>>,
              result |-> IF accepted
                         THEN Ok([success |-> TRUE, tx_hash |-> TX_HASH])
                         ELSE Err("FAILED TO SWAP"),
              block_id |-> "PreConfirmed"]

\* a plausible bug: the check of swap_amount is missing, and a swap of
\* nothing is read for and submitted
ekubo_manual_swap_zero_unchecked(token0, token1, swap_amount, reply, accepted, checked) ==
    LET after == ekubo_manual_swap_steps(token0, token1, swap_amount, reply,
                                         accepted, checked)
    IN  [requests |-> <<FunctionCall(token0, "allowance",
                                     <<ACCOUNT_ADDRESS, CONTRACT_ADDRESS>>, "Latest")>>,
         responses |-> <<reply>>] @@ after

\* AutoSwappr::ekubo_manual_swap: the requests it makes, the transactions it
\* submits, what it returns and the block reference it leaves in the account
ekubo_manual_swap(token0, token1, swap_amount, reply, accepted, checked) ==
    LET after == ekubo_manual_swap_steps(token0, token1, swap_amount, reply,
                                         accepted, checked)
    IN  IF swap_amount = U128OfNat(0)
        THEN [requests |-> <<>>, responses |-> <<>>, sent |-> <<>>,
              result |-> Err("SWAP AMOUNT IS ZERO"), block_id |-> block_id]
        ELSE [requests |-> <<FunctionCall(token0, "allowance",
                                          <<ACCOUNT_ADDRESS, CONTRACT_ADDRESS>>,
                                          "Latest")>>,
              responses |-> <<reply>>] @@ after

AutoSwappr_ekubo_manual_swap ==
    \E token0 \in {ETH, USDC, STRK, ADDR_123}, token1 \in {USDC, USDT, STRK, ETH},
       swap_amount \in SwapAmounts, reply \in AllowanceReplies,
       accepted \in BOOLEAN, checked \in BOOLEAN :
        /\ Idle
        /\ \E done \in {ekubo_manual_swap(token0, token1, swap_amount, reply,
                                          accepted, checked)} :
               /\ op' = "AutoSwappr::ekubo_manual_swap"
               /\ input' = [token0 |-> token0, token1 |-> token1,
                            swap_amount |-> swap_amount, overflow_checks |-> checked]
               /\ requests' = done.requests
               /\ responses' = done.responses
               /\ sent' = done.sent
               /\ result' = done.result
               /\ block_id' = done.block_id
               /\ UNCHANGED <<inflight, account_nonce>>

(***************************************************************************)
(* AutoSwapprClient (client.rs)                                            *)
(*                                                                         *)
(* The client that AutoSwapprClient::new built: the texts of its config    *)
(* were read by Felt::from_hex there, so they are addresses.               *)
(***************************************************************************)
\* config.contract_address, "0x555", and the address it spells
CONFIG_CONTRACT_ADDRESS == <<48, 120, 53, 53, 53>>

\* self.account.address()
CLIENT_ACCOUNT_ADDRESS == ADDR_789

\* the address texts the operations are called with
AddressTexts == {STR_0x123, STR_invalid}

\* the replies to the reads of the client
ClientReplies ==
    ProviderReplies({ <<>>, <<FeltFromNat(18)>>, <<ETH_WORD>>, <<TWO_64>>, <<TWO_128>>,
                      <<FeltFromNat(1), FeltFromNat(2)>> })

\* .map_err(|e| AutoSwapprError::Other { .. }) on what a contract call returned
map_err_Other(r) == IF r.kind = "Err" THEN Err("Other") ELSE r

\* a plausible bug: the low limb alone is returned
limbs_to_u128_low_limb(r) ==
    IF r.kind = "Ok" THEN Ok(r.value.low) ELSE r

\* Ok(uint256_to_u128(result.low.try_into().unwrap_or(Felt::ZERO),
\*                    result.high.try_into().unwrap_or(Felt::ZERO)))
limbs_to_u128(r) ==
    IF r.kind = "Ok"
    THEN Ok(uint256_to_u128(FeltFrom(r.value.low), FeltFrom(r.value.high)))
    ELSE r

Uint256_from_u128(value) == Uint256(value, Zeros(U128Bytes))

uint256_to_starknet(uint256) == Uint256(uint256.low, uint256.high)

AutoSwapprClient_get_allowance ==
    \E token_address \in AddressTexts, owner \in AddressTexts, spender \in AddressTexts,
       reply \in ClientReplies :
        LET token_felt == from_hex(token_address)
            owner_felt == from_hex(owner)
            spender_felt == from_hex(spender)
            allowance == IF ~reply.ok THEN Err("ProviderError")
                         ELSE decode_allowance(reply.words)
        IN  /\ Idle
            /\ UNCHANGED <<block_id, inflight, account_nonce>>
            /\ op' = "AutoSwapprClient::get_allowance"
            /\ input' = [token_address |-> token_address, owner |-> owner,
                         spender |-> spender]
            /\ sent' = <<>>
            /\ IF ~token_felt.ok \/ ~owner_felt.ok \/ ~spender_felt.ok
               THEN /\ requests' = <<>>
                    /\ responses' = <<>>
                    /\ result' = Err("InvalidInput")
               ELSE /\ requests' = <<FunctionCall(token_felt.value, "allowance",
                                                  <<owner_felt.value, spender_felt.value>>,
                                                  "Latest")>>
                    /\ responses' = <<reply>>
                    /\ result' = limbs_to_u128(map_err_Other(allowance))

AutoSwapprClient_get_token_balance ==
    \E token_address \in AddressTexts, reply \in ClientReplies :
        LET token_felt == from_hex(token_address)
            balance == IF ~reply.ok THEN Err("ProviderError")
                       ELSE decode_balance_of(reply.words)
        IN  /\ Idle
            /\ UNCHANGED <<block_id, inflight, account_nonce>>
            /\ op' = "AutoSwapprClient::get_token_balance"
            /\ input' = [token_address |-> token_address]
            /\ sent' = <<>>
            /\ IF ~token_felt.ok
               THEN /\ requests' = <<>>
                    /\ responses' = <<>>
                    /\ result' = Err("InvalidInput")
               ELSE /\ requests' = <<FunctionCall(token_felt.value, "balance_of",
                                                  <<CLIENT_ACCOUNT_ADDRESS>>, "Latest")>>
                    /\ responses' = <<reply>>
                    /\ result' = limbs_to_u128(map_err_Other(balance))

\* the three reads of get_token_info, in order: the first that does not
\* return Ok ends the operation
AutoSwapprClient_get_token_info ==
    \E token_address \in AddressTexts, name_reply \in ClientReplies,
       symbol_reply \in ClientReplies, decimals_reply \in ClientReplies :
        LET token_felt == from_hex(token_address)
            read(selector) == FunctionCall(token_felt.value, selector, <<>>, "Latest")
            name == map_err_Other(IF ~name_reply.ok THEN Err("ProviderError")
                                  ELSE decode_name(name_reply.words))
            symbol == map_err_Other(IF ~symbol_reply.ok THEN Err("ProviderError")
                                    ELSE decode_symbol(symbol_reply.words))
            decimals == map_err_Other(IF ~decimals_reply.ok THEN Err("ProviderError")
                                      ELSE decode_decimals(decimals_reply.words))
        IN  /\ Idle
            /\ UNCHANGED <<block_id, inflight, account_nonce>>
            /\ op' = "AutoSwapprClient::get_token_info"
            /\ input' = [token_address |-> token_address]
            /\ sent' = <<>>
            /\ IF ~token_felt.ok
               THEN /\ requests' = <<>>
                    /\ responses' = <<>>
                    /\ result' = Err("InvalidInput")
               ELSE IF name.kind # "Ok"
               THEN /\ requests' = <<read("name")>>
                    /\ responses' = <<name_reply>>
                    /\ result' = name
               ELSE IF symbol.kind # "Ok"
               THEN /\ requests' = <<read("name"), read("symbol")>>
                    /\ responses' = <<name_reply, symbol_reply>>
                    /\ result' = symbol
               ELSE /\ requests' = <<read("name"), read("symbol"), read("decimals")>>
                    /\ responses' = <<name_reply, symbol_reply, decimals_reply>>
                    /\ result' = IF decimals.kind # "Ok" THEN decimals
                                 ELSE Ok(<<name.value, symbol.value, decimals.value>>)

AutoSwapprClient_get_token_amount_in_usd ==
    \E token \in AddressTexts, token_amount \in {ONE_ETH, U128Shl(U128OfNat(1), 64)},
       reply \in ClientReplies :
        LET token_felt == from_hex(token)
            amount_uint256 == Uint256_from_u128(token_amount)
            starknet_uint256 == uint256_to_starknet(amount_uint256)
            limbs == conversions_u128_to_uint256(starknet_uint256.low)
            usd == IF ~reply.ok THEN Err("ProviderError")
                   ELSE decode_token_amount_in_usd(reply.words)
        IN  /\ Idle
            /\ UNCHANGED <<block_id, inflight, account_nonce>>
            /\ op' = "AutoSwapprClient::get_token_amount_in_usd"
            /\ input' = [token |-> token, token_amount |-> token_amount]
            /\ sent' = <<>>
            /\ IF ~token_felt.ok
               THEN /\ requests' = <<>>
                    /\ responses' = <<>>
                    /\ result' = Err("InvalidInput")
               ELSE /\ requests' = <<FunctionCall(SELF_ADDRESS, "get_token_amount_in_usd",
                                                  <<token_felt.value, limbs[1], limbs[2]>>,
                                                  "Latest")>>
                    /\ responses' = <<reply>>
                    /\ result' = limbs_to_u128(map_err_Other(usd))

\* a plausible variant: the amount is written as its two limbs, low and high
Erc20Contract_approve_both_limbs(token, spender, amount, accepted) ==
    LET calldata == <<spender, FeltFrom(amount.low), FeltFrom(amount.high)>>
    IN  [sent |-> <<Submission(<<Call(token, "approve", calldata)>>, accepted)>>,
         result |-> IF accepted THEN Ok(TX_HASH) ELSE Err("AccountError")]

\* Erc20Contract::approve at the token `token`: the transaction and what
\* approve returns
Erc20Contract_approve(token, spender, amount, accepted) ==
    LET limbs == conversions_u128_to_uint256(amount.low)
        calldata == <<spender, limbs[1], limbs[2]>>
    IN  [sent |-> <<Submission(<<Call(token, "approve", calldata)>>, accepted)>>,
         result |-> IF accepted THEN Ok(TX_HASH) ELSE Err("AccountError")]

\* AutoSwapprClient::approve_token: the transactions and what it returns
approve_token(token_address, spender, amount, accepted) ==
    LET token_felt == from_hex(token_address)
        spender_felt == from_hex(spender)
        amount_uint256 == Uint256_from_u128(amount)
        starknet_uint256 == uint256_to_starknet(amount_uint256)
        approved == Erc20Contract_approve(token_felt.value, spender_felt.value,
                                          starknet_uint256, accepted)
    IN  IF ~token_felt.ok \/ ~spender_felt.ok
        THEN [sent |-> <<>>, result |-> Err("InvalidInput")]
        ELSE [sent |-> approved.sent,
              result |-> IF approved.result.kind = "Ok"
                         THEN Ok(felt_to_string(approved.result.value))
                         ELSE Err("Other")]

AutoSwapprClient_approve_token ==
    \E token_address \in AddressTexts, spender \in AddressTexts,
       amount \in {ONE_ETH, U128Shl(U128OfNat(1), 64)}, accepted \in BOOLEAN :
        LET done == approve_token(token_address, spender, amount, accepted)
        IN  /\ Idle
            /\ UNCHANGED <<block_id, inflight, account_nonce>>
            /\ op' = "AutoSwapprClient::approve_token"
            /\ input' = [token_address |-> token_address, spender |-> spender,
                         amount |-> amount]
            /\ requests' = <<>>
            /\ responses' = <<>>
            /\ sent' = done.sent
            /\ result' = done.result

\* the SwapData values the client's swaps are called with
ClientSwapDatas ==
    { swap_data \in LegacySwapDatas :
        /\ swap_data.params.amount.mag = Uint256(ONE_ETH, Zeros(U128Bytes))
        /\ swap_data.params.sqrt_ratio_limit = Uint256(SQRT_RATIO_LIMIT, Zeros(U128Bytes))
        /\ swap_data.params.skip_ahead = U32OfNat(0)
        /\ ~swap_data.params.amount.sign }

\* AutoSwapprClient::execute_ekubo_manual_swap: the transactions and what
\* it returns
execute_ekubo_manual_swap(swap_data, accepted) ==
    LET calldata == ekubo_manual_swap_calldata(swap_data)
    IN  IF ~calldata.ok
        THEN [sent |-> <<>>, result |-> Err("Other")]
        ELSE [sent |-> <<Submission(<<Call(SELF_ADDRESS, "ekubo_manual_swap",
                                           calldata.words)>>, accepted)>>,
              result |-> IF accepted THEN Ok(felt_to_string(TX_HASH)) ELSE Err("Other")]

AutoSwapprClient_execute_ekubo_manual_swap ==
    \E swap_data \in ClientSwapDatas, accepted \in BOOLEAN :
        LET done == execute_ekubo_manual_swap(swap_data, accepted)
        IN  /\ Idle
            /\ UNCHANGED <<block_id, inflight, account_nonce>>
            /\ op' = "AutoSwapprClient::execute_ekubo_manual_swap"
            /\ input' = [swap_data |-> swap_data]
            /\ requests' = <<>>
            /\ responses' = <<>>
            /\ sent' = done.sent
            /\ result' = done.result

AutoSwapprClient_execute_ekubo_swap ==
    \E swap_data \in ClientSwapDatas, accepted \in BOOLEAN :
        LET calldata == ekubo_swap_calldata(swap_data)
        IN  /\ Idle
            /\ UNCHANGED <<block_id, inflight, account_nonce>>
            /\ op' = "AutoSwapprClient::execute_ekubo_swap"
            /\ input' = [swap_data |-> swap_data]
            /\ requests' = <<>>
            /\ responses' = <<>>
            /\ IF ~calldata.ok
               THEN sent' = <<>> /\ result' = Err("Other")
               ELSE /\ sent' = <<Submission(<<Call(SELF_ADDRESS, "ekubo_swap",
                                                   calldata.words)>>, accepted)>>
                    /\ result' = IF accepted THEN Ok(felt_to_string(TX_HASH))
                                 ELSE Err("Other")

\* the routes the client's avnu swap is called with: none, or one with one
\* additional parameter
ClientRouteLists ==
    { <<>>,
      << [token_from |-> ADDR_123, token_to |-> ADDR_456, exchange_address |-> ADDR_789,
          percent |-> U128OfNat(100), additional_swap_params |-> <<FeltFromNat(7)>>] >> }

AutoSwapprClient_execute_avnu_swap ==
    \E protocol_swapper \in AddressTexts, token_from_address \in AddressTexts,
       token_to_address \in AddressTexts, beneficiary \in AddressTexts,
       integrator_fee_recipient \in AddressTexts,
       routes \in ClientRouteLists, accepted \in BOOLEAN :
        LET protocol_swapper_felt == from_hex(protocol_swapper)
            token_from_felt == from_hex(token_from_address)
            token_to_felt == from_hex(token_to_address)
            beneficiary_felt == from_hex(beneficiary)
            integrator_fee_recipient_felt == from_hex(integrator_fee_recipient)
            token_from_amount == ONE_ETH
            token_to_min_amount == U128OfNat(1)
            from_amount_uint256 == Uint256_from_u128(token_from_amount)
            to_min_amount_uint256 == Uint256_from_u128(token_to_min_amount)
            a == [protocol_swapper |-> protocol_swapper_felt.value,
                  token_from_address |-> token_from_felt.value,
                  token_from_amount |-> uint256_to_starknet(from_amount_uint256),
                  token_to_address |-> token_to_felt.value,
                  token_to_min_amount |-> uint256_to_starknet(to_min_amount_uint256),
                  beneficiary |-> beneficiary_felt.value,
                  integrator_fee_amount_bps |-> U128OfNat(30),
                  integrator_fee_recipient |-> integrator_fee_recipient_felt.value,
                  routes |-> routes]
        IN  /\ Idle
            /\ UNCHANGED <<block_id, inflight, account_nonce>>
            /\ op' = "AutoSwapprClient::execute_avnu_swap"
            /\ input' = [protocol_swapper |-> protocol_swapper,
                         token_from_address |-> token_from_address,
                         token_from_amount |-> token_from_amount,
                         token_to_address |-> token_to_address,
                         token_to_min_amount |-> token_to_min_amount,
                         beneficiary |-> beneficiary,
                         integrator_fee_amount_bps |-> U128OfNat(30),
                         integrator_fee_recipient |-> integrator_fee_recipient,
                         routes |-> routes]
            /\ requests' = <<>>
            /\ responses' = <<>>
            /\ IF \/ ~protocol_swapper_felt.ok \/ ~token_from_felt.ok \/ ~token_to_felt.ok
                  \/ ~beneficiary_felt.ok \/ ~integrator_fee_recipient_felt.ok
               THEN sent' = <<>> /\ result' = Err("InvalidInput")
               ELSE /\ sent' = <<Submission(<<Call(SELF_ADDRESS, "avnu_swap",
                                                   avnu_swap_calldata(a))>>, accepted)>>
                    /\ result' = IF accepted THEN Ok(felt_to_string(TX_HASH))
                                 ELSE Err("Other")

(***************************************************************************)
(* AutoSwapprContract::fibrous_swap, as the client calls it                *)
(***************************************************************************)
\* the swap_params the fibrous swap is called with: none, one, or two
FibrousSwapParamLists ==
    LET first == [token_in |-> ADDR_123, token_out |-> ADDR_456, rate |-> U32OfNat(100),
                  protocol_id |-> U32OfNat(1), pool_address |-> ADDR_789,
                  extra_data |-> <<FeltFromNat(7)>>]
        second == [token_in |-> ADDR_456, token_out |-> ADDR_123, rate |-> U32OfNat(50),
                   protocol_id |-> U32OfNat(2), pool_address |-> ADDR_789,
                   extra_data |-> <<>>]
    IN  { <<>>, <<first>>, <<first, second>> }

FibrousRouteParams ==
    { [token_in |-> ADDR_123, token_out |-> ADDR_456,
       amount_in |-> Uint256(ONE_ETH, amount_in_high),
       min_received |-> Uint256(U128OfNat(1), Zeros(U128Bytes)),
       destination |-> ADDR_789] :
        amount_in_high \in {Zeros(U128Bytes), U128OfNat(1)} }

fibrous_swap_calldata(route_params, swap_params, protocol_swapper, beneficiary) ==
    LET amount_in == conversions_u128_to_uint256(route_params.amount_in.low)
        min_received == conversions_u128_to_uint256(route_params.min_received.low)
        RECURSIVE each(_)
        each(ps) ==
            IF ps = <<>> THEN <<>>
            ELSE << Head(ps).token_in, Head(ps).token_out, FeltFrom(Head(ps).rate),
                    FeltFrom(Head(ps).protocol_id), Head(ps).pool_address,
                    FeltFromNat(Len(Head(ps).extra_data)) >>
                 \o Head(ps).extra_data \o each(Tail(ps))
    IN  << protocol_swapper, beneficiary, route_params.token_in, route_params.token_out,
           amount_in[1], amount_in[2], min_received[1], min_received[2],
           route_params.destination, FeltFromNat(Len(swap_params)) >>
        \o each(swap_params)

AutoSwapprClient_execute_fibrous_swap ==
    \E protocol_swapper \in AddressTexts, beneficiary \in AddressTexts,
       route_params \in FibrousRouteParams, swap_params \in FibrousSwapParamLists,
       accepted \in BOOLEAN :
        LET protocol_swapper_felt == from_hex(protocol_swapper)
            beneficiary_felt == from_hex(beneficiary)
            calldata == fibrous_swap_calldata(route_params, swap_params,
                                              protocol_swapper_felt.value,
                                              beneficiary_felt.value)
        IN  /\ Idle
            /\ UNCHANGED <<block_id, inflight, account_nonce>>
            /\ op' = "AutoSwapprClient::execute_fibrous_swap"
            /\ input' = [protocol_swapper |-> protocol_swapper,
                         beneficiary |-> beneficiary,
                         route_params |-> route_params, swap_params |-> swap_params]
            /\ requests' = <<>>
            /\ responses' = <<>>
            /\ IF ~protocol_swapper_felt.ok \/ ~beneficiary_felt.ok
               THEN sent' = <<>> /\ result' = Err("InvalidInput")
               ELSE /\ sent' = <<Submission(<<Call(SELF_ADDRESS, "fibrous_swap",
                                                   calldata)>>, accepted)>>
                    /\ result' = IF accepted THEN Ok(felt_to_string(TX_HASH))
                                 ELSE Err("Other")

(***************************************************************************)
(* AutoSwapprClient::execute_swap_with_approval                            *)
(***************************************************************************)
\* a plausible bug: the result of approve_token is dropped instead of
\* returned with `?`, so the swap is submitted whatever the approval did
execute_swap_with_approval_unchecked(token_in, swap_data, amount, approve_ok, swap_ok) ==
    LET approved == approve_token(token_in, CONFIG_CONTRACT_ADDRESS, amount, approve_ok)
        swapped == execute_ekubo_manual_swap(swap_data, swap_ok)
    IN  [sent |-> approved.sent \o swapped.sent, result |-> swapped.result]

\* the transactions of execute_swap_with_approval, in the order they are
\* submitted, and what it returns
execute_swap_with_approval(token_in, swap_data, amount, approve_ok, swap_ok) ==
    LET approved == approve_token(token_in, CONFIG_CONTRACT_ADDRESS, amount, approve_ok)
        swapped == execute_ekubo_manual_swap(swap_data, swap_ok)
    IN  IF approved.result.kind # "Ok"
        THEN approved
        ELSE [sent |-> approved.sent \o swapped.sent, result |-> swapped.result]

AutoSwapprClient_execute_swap_with_approval ==
    \E token_in \in AddressTexts, swap_data \in ClientSwapDatas,
       amount \in {ONE_ETH, U128Shl(U128OfNat(1), 64)},
       approve_accepted \in BOOLEAN, swap_accepted \in BOOLEAN :
        LET done == execute_swap_with_approval(token_in, swap_data, amount,
                                               approve_accepted, swap_accepted)
        IN  /\ Idle
            /\ UNCHANGED <<block_id, inflight, account_nonce>>
            /\ op' = "AutoSwapprClient::execute_swap_with_approval"
            /\ input' = [token_in |-> token_in, swap_data |-> swap_data,
                         amount |-> amount]
            /\ requests' = <<>>
            /\ responses' = <<>>
            /\ sent' = done.sent
            /\ result' = done.result

(***************************************************************************)
(* AutoSwappr::config (swappr.rs)                                          *)
(***************************************************************************)
STR_EMPTY == <<>>

\* "http://a" and "rpc"
STR_RPC_URL == <<104, 116, 116, 112, 58, 47, 47, 97>>
STR_rpc == <<114, 112, 99>>

IsAsciiAlpha(c) == (c >= 65 /\ c <= 90) \/ (c >= 97 /\ c <= 122)

\* Url::parse without a base: the text needs a scheme, a letter followed by
\* letters, digits, '+', '-' or '.', up to a ':'; anything else is the error
\* RelativeUrlWithoutBase
Url_parse(s) ==
    LET colons == {i \in 1..Len(s) : s[i] = 58}
        first == CHOOSE i \in colons : \A j \in colons : i <= j
    IN  /\ colons # {}
        /\ first > 1
        /\ IsAsciiAlpha(s[1])
        /\ \A i \in 2..(first - 1) :
                IsAsciiAlpha(s[i]) \/ IsDecDigit(s[i]) \/ s[i] \in {43, 45, 46}

ConfigTexts(valid) == {STR_EMPTY, STR_invalid, valid}

\* the value config returns after its checks for empty strings
config_build(rpc_url, account_address, private_key, contract_address) ==
    LET signer == from_hex(private_key)
        contract == from_hex(contract_address)
        address == from_hex(account_address)
    IN  IF ~signer.ok THEN Panic                               \* .unwrap()
        ELSE IF ~contract.ok THEN Panic                        \* .unwrap()
        ELSE IF ~address.ok THEN Panic                         \* .unwrap()
        ELSE IF ~Url_parse(rpc_url) THEN Panic                 \* .unwrap()
        ELSE Ok([rpc_url |-> rpc_url, account_address |-> account_address,
                 private_key |-> private_key, account |-> address.value,
                 contract_address |-> contract.value])

AutoSwappr_config ==
    \E rpc_url \in {STR_EMPTY, STR_rpc, STR_RPC_URL},
       account_address \in ConfigTexts(STR_0x789),
       private_key \in ConfigTexts(STR_0x123),
       contract_address \in ConfigTexts(CONFIG_CONTRACT_ADDRESS) :
        /\ Idle
        /\ UNCHANGED <<block_id, inflight, account_nonce>>
        /\ op' = "AutoSwappr::config"
        /\ input' = [rpc_url |-> rpc_url, account_address |-> account_address,
                     private_key |-> private_key, contract_address |-> contract_address]
        /\ NoIO
        /\ result' = IF rpc_url = STR_EMPTY THEN Err("EMPTY RPC STRING")
                     ELSE IF account_address = STR_EMPTY
                     THEN Err("EMPTY ACCOUNT ADDRESS STRING")
                     ELSE IF private_key = STR_EMPTY
                     THEN Err("EMPTY PRIVATE KEY STRING")
                     ELSE config_build(rpc_url, account_address, private_key,
                                       contract_address)

(***************************************************************************)
(* The other writes of AutoSwapprContract and Erc20Contract                *)
(***************************************************************************)
AutoSwapprContract_fibrous_swap ==
    \E route_params \in FibrousRouteParams, swap_params \in FibrousSwapParamLists,
       accepted \in BOOLEAN :
        LET protocol_swapper == FeltFromNat(11)
            beneficiary == FeltFromNat(12)
        IN  /\ Idle
            /\ UNCHANGED <<block_id, inflight, account_nonce>>
            /\ op' = "AutoSwapprContract::fibrous_swap"
            /\ input' = [route_params |-> route_params, swap_params |-> swap_params,
                         protocol_swapper |-> protocol_swapper,
                         beneficiary |-> beneficiary]
            /\ requests' = <<>>
            /\ responses' = <<>>
            /\ SubmitOne("fibrous_swap",
                         fibrous_swap_calldata(route_params, swap_params,
                                               protocol_swapper, beneficiary),
                         accepted)

\* every u16 has two bytes; these are 0, 30, 10000 and 65535
PercentageFees == {NatBytes(0, U16Bytes), NatBytes(30, U16Bytes),
                   NatBytes(10000, U16Bytes), NatBytes(65535, U16Bytes)}

set_fee_type_calldata(fee_type, percentage_fee) ==
    LET fee_type_felt == IF fee_type = "Fixed" THEN FeltFromNat(0) ELSE FeltFromNat(1)
    IN  <<fee_type_felt, FeltFrom(percentage_fee)>>

AutoSwapprContract_set_fee_type ==
    \E fee_type \in FeeTypes, percentage_fee \in PercentageFees, accepted \in BOOLEAN :
        /\ Idle
        /\ UNCHANGED <<block_id, inflight, account_nonce>>
        /\ op' = "AutoSwapprContract::set_fee_type"
        /\ input' = [fee_type |-> fee_type, percentage_fee |-> percentage_fee]
        /\ requests' = <<>>
        /\ responses' = <<>>
        /\ SubmitOne("set_fee_type", set_fee_type_calldata(fee_type, percentage_fee),
                     accepted)

AutoSwapprContract_support_new_token_from ==
    \E token_from \in {ADDR_123, ADDR_456}, feed_id \in {FeltFromNat(7), TWO_128},
       accepted \in BOOLEAN :
        /\ Idle
        /\ UNCHANGED <<block_id, inflight, account_nonce>>
        /\ op' = "AutoSwapprContract::support_new_token_from"
        /\ input' = [token_from |-> token_from, feed_id |-> feed_id]
        /\ requests' = <<>>
        /\ responses' = <<>>
        /\ SubmitOne("support_new_token_from", <<token_from, feed_id>>, accepted)

AutoSwapprContract_remove_token_from ==
    \E token_from \in {ADDR_123, ADDR_456}, accepted \in BOOLEAN :
        /\ Idle
        /\ UNCHANGED <<block_id, inflight, account_nonce>>
        /\ op' = "AutoSwapprContract::remove_token_from"
        /\ input' = [token_from |-> token_from]
        /\ requests' = <<>>
        /\ responses' = <<>>
        /\ SubmitOne("remove_token_from", <<token_from>>, accepted)

\* Erc20Contract::approve called on the contract of TOKEN_ADDRESS
Erc20Contract_approve_sent ==
    \E spender \in {ADDR_456, SELF_ADDRESS}, amount \in Uint256Inputs,
       accepted \in BOOLEAN :
        LET done == Erc20Contract_approve(TOKEN_ADDRESS, spender, amount, accepted)
        IN  /\ Idle
            /\ UNCHANGED <<block_id, inflight, account_nonce>>
            /\ op' = "Erc20Contract::approve"
            /\ input' = [spender |-> spender, amount |-> amount]
            /\ requests' = <<>>
            /\ responses' = <<>>
            /\ sent' = done.sent
            /\ result' = done.result

(***************************************************************************)
(* Two writes on one client, in flight together                            *)
(*                                                                         *)
(* The writes of AutoSwapprClient take &self and are async: callers that   *)
(* share the client can each have a write in flight.  A write ends in      *)
(* account.execute_v3(calls).send(), and send, given no nonce, first asks  *)
(* the provider for the nonce of the account and then submits the          *)
(* transaction with it: two awaits, between which another caller can run.  *)
(***************************************************************************)
\* the writes the callers make, with the call each one builds
ConcurrentWrites ==
    { [operation |-> "AutoSwapprClient::approve_token",
       calls |-> approve_token(STR_0x123, STR_0x456, amount, TRUE).sent[1].calls] :
        amount \in {ONE_ETH, U128Shl(U128OfNat(1), 64)} }
    \cup
    { [operation |-> "AutoSwapprClient::execute_ekubo_swap",
       calls |-> <<Call(SELF_ADDRESS, "ekubo_swap", ekubo_swap_calldata(swap_data).words)>>] :
        swap_data \in {sd \in ClientSwapDatas : ekubo_swap_calldata(sd).ok} }
    \cup
    { [operation |-> "AutoSwapprClient::execute_ekubo_manual_swap",
       calls |-> execute_ekubo_manual_swap(swap_data, TRUE).sent[1].calls] :
        swap_data \in {sd \in ClientSwapDatas : ekubo_manual_swap_calldata(sd).ok} }

\* the nonces the account can have when the callers start
AccountNonces == {0, 1, 7}

InitConcurrent ==
    /\ op = "concurrent writes"
    /\ input = <<>>
    /\ requests = <<>>
    /\ responses = <<>>
    /\ sent = <<>>
    /\ result = Ok(<<>>)
    /\ block_id = "Latest"
    /\ inflight = [c \in Callers |-> NotCalled]
    /\ account_nonce \in AccountNonces

\* a plausible design: the client holds a lock for the length of a write,
\* so a caller can start only when no other write is in flight
CanCall_serialized(c) ==
    /\ inflight[c].pc = "idle"
    /\ \A other \in Callers \ {c} : inflight[other].pc \in {"idle", "returned"}

\* what a caller needs to start a write on the client: nothing but `&self`
CanCall(c) == inflight[c].pc = "idle"

\* a caller calls a write: the addresses are parsed and the call is built
Client_call(c) ==
    \E write \in ConcurrentWrites :
        /\ CanCall(c)
        /\ inflight' = [inflight EXCEPT ![c] = [pc |-> "called",
                                                operation |-> write.operation,
                                                calls |-> write.calls,
                                                nonce |-> 0,
                                                result |-> Ok(<<>>)]]
        /\ UNCHANGED <<op, input, requests, responses, sent, result, block_id,
                       account_nonce>>

\* send() of the caller's write asks for the nonce of the account
Send_get_nonce(c) ==
    /\ inflight[c].pc = "called"
    /\ requests' = Append(requests, [method |-> "get_nonce",
                                     contract_address |-> CLIENT_ACCOUNT_ADDRESS,
                                     block_id |-> block_id])
    /\ responses' = Append(responses, account_nonce)
    /\ inflight' = [inflight EXCEPT ![c].pc = "prepared", ![c].nonce = account_nonce]
    /\ UNCHANGED <<op, input, sent, result, block_id, account_nonce>>

\* send() of the caller's write submits the transaction with the nonce it
\* read; the chain takes it only with the nonce the account has now, and
\* the node can refuse it for other reasons
Send_submit(c) ==
    \E node_ok \in BOOLEAN :
        LET accepted == node_ok /\ inflight[c].nonce = account_nonce
        IN  /\ inflight[c].pc = "prepared"
            /\ sent' = Append(sent, Submission(inflight[c].calls, accepted))
            /\ account_nonce' = IF accepted THEN account_nonce + 1 ELSE account_nonce
            /\ inflight' = [inflight EXCEPT
                              ![c].pc = "returned",
                              ![c].result = IF accepted THEN Ok(felt_to_string(TX_HASH))
                                            ELSE Err("Other")]
            /\ UNCHANGED <<op, input, requests, responses, result, block_id>>

NextConcurrent ==
    \/ \E c \in Callers : Client_call(c)
    \/ \E c \in Callers : Send_get_nonce(c)
    \/ \E c \in Callers : Send_submit(c)

SpecConcurrent == InitConcurrent /\ [][NextConcurrent]_vars

(***************************************************************************)
(* AutoSwappr::_ekubo_auto_swap (swappr.rs)                                *)
(***************************************************************************)
\* what the backend answers to the POST: no answer, or a status and a text
BackendReplies ==
    { [kind |-> "network error", text |-> <<>>],
      [kind |-> "success", text |-> <<111, 107>>],
      [kind |-> "failure", text |-> <<110, 111>>] }

\* the steps of _ekubo_auto_swap after the check of the amount: the POST it
\* makes, the transaction it submits, what it returns and the block
\* reference it leaves in the account
ekubo_auto_swap_steps(token_from, token_to, amount, accepted, checked, reply) ==
    LET token == get_token_info_by_address(token_from)
        product == MulPow10(amount, token.value.decimals)
        actual_amount == Resize(product, U128Bytes)
        limbs == util_u128_to_uint256(actual_amount)
        approve_call == Call(token_from, "approve",
                             <<CONTRACT_ADDRESS, limbs[1], limbs[2]>>)
        payload == [wallet_address |-> felt_lower_hex(ACCOUNT_ADDRESS),
                    user_address |-> felt_lower_hex(ACCOUNT_ADDRESS),
                    to_token |-> felt_lower_hex(token_to),
                    from_token |-> felt_lower_hex(token_from),
                    swap_amount |-> felt_to_string(FeltFrom(actual_amount)),
                    approve_tx_hash |-> felt_lower_hex(TX_HASH)]
        nothing == [requests |-> <<>>, responses |-> <<>>, sent |-> <<>>,
                    block_id |-> block_id]
        approved == [sent |-> <<Submission(<<approve_call>>, accepted)>>,
                     block_id |-> "PreConfirmed"]
    IN  IF token.kind # "Ok"
        THEN [result |-> Err("TOKEN IS NOT AVAILABLE")] @@ nothing
        ELSE IF checked /\ ~FitsIn(product, U128Bytes)
        THEN [result |-> Panic] @@ nothing
        ELSE IF ~accepted
        THEN [requests |-> <<>>, responses |-> <<>>, result |-> Err("approve failed")]
             @@ approved
        ELSE [requests |-> <<[method |-> "POST", json |-> payload]>>,
              responses |-> <<reply>>,
              result |-> IF reply.kind = "network error" THEN Err("network error")
                         ELSE IF reply.kind = "success" THEN Ok(reply.text)
                         ELSE Err("backend error")]
             @@ approved

AutoSwappr_ekubo_auto_swap ==
    \E token_from \in {ETH, USDC, WBTC, ADDR_123}, token_to \in {USDC, STRK},
       amount \in SwapAmounts, accepted \in BOOLEAN, checked \in BOOLEAN,
       reply \in BackendReplies :
        /\ Idle
        /\ \E done \in {ekubo_auto_swap_steps(token_from, token_to, amount, accepted,
                                              checked, reply)} :
               /\ UNCHANGED <<inflight, account_nonce>>
               /\ op' = "AutoSwappr::_ekubo_auto_swap"
               /\ input' = [token_from |-> token_from, token_to |-> token_to,
                            amount |-> amount, overflow_checks |-> checked]
               /\ IF amount = U128OfNat(0)
                  THEN /\ NoIO
                       /\ result' = Err("ZERO SWAP AMOUNT")
                       /\ UNCHANGED block_id
                  ELSE /\ requests' = done.requests
                       /\ responses' = done.responses
                       /\ sent' = done.sent
                       /\ result' = done.result
                       /\ block_id' = done.block_id

Call_I129_new ==
    \E mag \in {U128OfNat(0), U128OfNat(1), ONE_ETH, U128_MAX}, sign \in BOOLEAN :
        /\ Idle
        /\ UNCHANGED <<block_id, inflight, account_nonce>>
        /\ op' = "I129::new"
        /\ input' = [mag |-> mag, sign |-> sign]
        /\ result' = Ok(I129_new(mag, sign))
        /\ NoIO

Next ==
    \/ Call_conversions_u128_to_uint256
    \/ Call_util_u128_to_uint256
    \/ Call_uint256_to_u128
    \/ Demo_conversion_functions
    \/ AutoSwapprContract_get_contract_parameters
    \/ AutoSwapprContract_get_token_amount_in_usd
    \/ Erc20Contract_allowance
    \/ Erc20Contract_balance_of
    \/ Erc20Contract_decimals
    \/ Erc20Contract_symbol
    \/ Erc20Contract_name
    \/ AutoSwappr_get_allowance
    \/ AutoSwapprContract_ekubo_swap
    \/ AutoSwapprContract_ekubo_manual_swap
    \/ Call_SwapData_encode
    \/ AutoSwapprContract_avnu_swap
    \/ Call_FeeType_to_u8
    \/ Call_FeeType_from_u8
    \/ Call_is_valid_address
    \/ Call_felt_to_ascii_string
    \/ Call_PoolKey_new
    \/ Call_I129_new
    \/ AutoSwappr_ekubo_manual_swap
    \/ AutoSwapprClient_get_allowance
    \/ AutoSwapprClient_get_token_balance
    \/ AutoSwapprClient_get_token_info
    \/ AutoSwapprClient_get_token_amount_in_usd
    \/ AutoSwapprClient_approve_token
    \/ AutoSwapprClient_execute_ekubo_manual_swap
    \/ AutoSwapprClient_execute_ekubo_swap
    \/ AutoSwapprClient_execute_avnu_swap
    \/ AutoSwapprClient_execute_fibrous_swap
    \/ AutoSwapprClient_execute_swap_with_approval
    \/ AutoSwappr_config
    \/ AutoSwapprContract_fibrous_swap
    \/ AutoSwapprContract_set_fee_type
    \/ AutoSwapprContract_support_new_token_from
    \/ AutoSwapprContract_remove_token_from
    \/ Erc20Contract_approve_sent
    \/ AutoSwappr_ekubo_auto_swap

Spec == Init /\ [][Next]_vars

(***************************************************************************)
(* Claims.                                                                 *)
(***************************************************************************)

\* C1: round trip of the limb split: rebuilding a u128 from the two limbs
\* that u128_to_uint256 made of it gives the u128 back, for every u128.
C1_RoundTrip ==
    op = "demo::conversion_functions" =>
        result.value.back_to_u128 = input.test_amount

\* C1 witness: a value with bits on both sides of bit 64 was split and rebuilt.
C1_Witness ==
    /\ op = "demo::conversion_functions"
    /\ input.test_amount = U128_MAX
    /\ result.value.high # FELT_ZERO
    /\ result.value.back_to_u128 = U128_MAX

\* C2 (as claimed): u128_to_uint256(v), in both copies, is (v mod 2^128,
\* v div 2^128) = (v, 0), so that low + high * 2^128 = v.
C2_Claimed ==
    op \in {"conversions::u128_to_uint256", "constant::u128_to_uint256"} =>
        /\ result.value[1] = FeltFrom(input.amount)
        /\ result.value[2] = FELT_ZERO

\* the calldata of the one call of the one transaction that was submitted
SentCalldata == sent[1].calls[1].calldata

EkuboOps == {"AutoSwapprContract::ekubo_swap", "AutoSwapprContract::ekubo_manual_swap"}

AddressesParse(swap_data) ==
    /\ from_hex(swap_data.pool_key.token0).ok
    /\ from_hex(swap_data.pool_key.token1).ok
    /\ from_hex(swap_data.pool_key.extension).ok
    /\ from_hex(swap_data.caller).ok

\* C3 (as claimed): when the address strings parse, ekubo_swap and
\* ekubo_manual_swap submit 13 words, [amount magnitude low, amount magnitude
\* high, sign, sqrt_ratio_limit low, sqrt_ratio_limit high, is_token1,
\* skip_ahead, token0, token1, fee, tick_spacing, extension, caller], the limbs
\* being those of the 256-bit values (value = low + high * 2^128), and both
\* operations build the same words for the same SwapData.
C3_Claimed ==
    (op \in EkuboOps /\ AddressesParse(input.swap_data)) =>
        LET sd == input.swap_data
        IN  /\ Len(sent) = 1
            /\ Len(sent[1].calls) = 1
            /\ SentCalldata =
                 << FeltFrom(sd.params.amount.mag.low),
                    FeltFrom(sd.params.amount.mag.high),
                    FeltFromNat(IF sd.params.amount.sign THEN 1 ELSE 0),
                    FeltFrom(sd.params.sqrt_ratio_limit.low),
                    FeltFrom(sd.params.sqrt_ratio_limit.high),
                    FeltFromNat(IF sd.params.is_token1 THEN 1 ELSE 0),
                    FeltFrom(sd.params.skip_ahead),
                    from_hex(sd.pool_key.token0).value,
                    from_hex(sd.pool_key.token1).value,
                    FeltFrom(sd.pool_key.fee),
                    FeltFrom(sd.pool_key.tick_spacing),
                    from_hex(sd.pool_key.extension).value,
                    from_hex(sd.caller).value >>
            /\ ekubo_swap_calldata(sd) = ekubo_manual_swap_calldata(sd)

\* the SwapData of contracts.rs that holds the same swap as a SwapData of
\* connector.rs
SameSwapForContract(sd) ==
    [params |-> [amount |-> [mag |-> Uint256(sd.params.amount.mag, Zeros(U128Bytes)),
                             sign |-> sd.params.amount.sign],
                 sqrt_ratio_limit |-> sd.params.sqrt_ratio_limit,
                 is_token1 |-> sd.params.is_token1,
                 skip_ahead |-> sd.params.skip_ahead],
     pool_key |-> [token0 |-> felt_lower_hex(sd.pool_key.token0),
                   token1 |-> felt_lower_hex(sd.pool_key.token1),
                   fee |-> sd.pool_key.fee,
                   tick_spacing |-> Resize(sd.pool_key.tick_spacing, U32Bytes),
                   extension |-> felt_lower_hex(sd.pool_key.extension)],
     caller |-> felt_lower_hex(sd.caller)]

\* C4 (as claimed): the derived Encode of SwapData and the serializer written
\* out in AutoSwapprContract::ekubo_manual_swap give the same words for the
\* same swap, the SwapParameters part ending [sqrt_ratio_limit low,
\* sqrt_ratio_limit high, is_token1, skip_ahead].
C4_Claimed ==
    op = "SwapData::encode" =>
        LET sd == input.swap_data
            words == result.value
            params_end == Len(words) - 6
        IN  /\ words = ekubo_manual_swap_calldata(SameSwapForContract(sd)).words
            /\ SubSeq(words, params_end - 3, params_end) =
                 << FeltFrom(sd.params.sqrt_ratio_limit.low),
                    FeltFrom(sd.params.sqrt_ratio_limit.high),
                    FeltFromNat(IF sd.params.is_token1 THEN 1 ELSE 0),
                    FeltFrom(sd.params.skip_ahead) >>

\* the number of words of the first k routes
RECURSIVE RoutesWords(_, _)
RoutesWords(routes, k) ==
    IF k = 0 THEN 0
    ELSE RoutesWords(routes, k - 1) + 5 + Len(routes[k].additional_swap_params)

\* the number of words before route i
RouteOffset(routes, i) == 11 + RoutesWords(routes, i - 1)

\* C5: the calldata of avnu_swap is the 10 header words, the number of
\* routes, then per route, in input order, token_from, token_to,
\* exchange_address, percent, the number of additional_swap_params and the
\* params; its length is 11 + the sum over the routes of (5 + params).
C5_AvnuLayout ==
    op = "AutoSwapprContract::avnu_swap" =>
        LET cd == SentCalldata
            routes == input.routes
        IN  /\ Len(sent) = 1
            /\ Len(sent[1].calls) = 1
            /\ Len(cd) = 11 + RoutesWords(routes, Len(routes))
            /\ cd[1] = input.protocol_swapper
            /\ cd[2] = input.token_from_address
            /\ cd[5] = input.token_to_address
            /\ cd[8] = input.beneficiary
            /\ cd[9] = FeltFrom(input.integrator_fee_amount_bps)
            /\ cd[10] = input.integrator_fee_recipient
            /\ cd[11] = FeltFromNat(Len(routes))
            /\ \A i \in 1..Len(routes) :
                 LET at == RouteOffset(routes, i)
                     params == routes[i].additional_swap_params
                 IN  /\ cd[at + 1] = routes[i].token_from
                     /\ cd[at + 2] = routes[i].token_to
                     /\ cd[at + 3] = routes[i].exchange_address
                     /\ cd[at + 4] = FeltFrom(routes[i].percent)
                     /\ cd[at + 5] = FeltFromNat(Len(params))
                     /\ \A j \in 1..Len(params) : cd[at + 5 + j] = params[j]

\* C5 witness: two routes with different numbers of params were serialized.
C5_Witness ==
    /\ op = "AutoSwapprContract::avnu_swap"
    /\ Len(input.routes) = 2
    /\ Len(input.routes[1].additional_swap_params) = 2
    /\ Len(input.routes[2].additional_swap_params) = 1
    /\ Len(SentCalldata) = 24
    /\ SentCalldata[16] = FeltFromNat(2)
    /\ SentCalldata[23] = FeltFromNat(1)

\* C6 (as claimed): for a route with 2 additional_swap_params the 4th word
\* of the route, the one after the 3 address fields, is 2, and the 2 params
\* follow it.
C6_Claimed ==
    op = "AutoSwapprContract::avnu_swap" =>
        \A i \in 1..Len(input.routes) :
            LET at == RouteOffset(input.routes, i)
                params == input.routes[i].additional_swap_params
            IN  Len(params) = 2 =>
                    /\ SentCalldata[at + 4] = FeltFromNat(2)
                    /\ SentCalldata[at + 5] = params[1]
                    /\ SentCalldata[at + 6] = params[2]

\* C6 (amended): for a route with 2 additional_swap_params the 5th word of
\* the route, the one after the 3 address fields and percent, is 2, the 2
\* params follow it, and the route ends there: it has 7 words.
C6_LengthIsFifthWord ==
    op = "AutoSwapprContract::avnu_swap" =>
        \A i \in 1..Len(input.routes) :
            LET at == RouteOffset(input.routes, i)
                params == input.routes[i].additional_swap_params
            IN  Len(params) = 2 =>
                    /\ SentCalldata[at + 4] = FeltFrom(input.routes[i].percent)
                    /\ SentCalldata[at + 5] = FeltFromNat(2)
                    /\ SentCalldata[at + 6] = params[1]
                    /\ SentCalldata[at + 7] = params[2]
                    /\ IF i = Len(input.routes)
                       THEN Len(SentCalldata) = at + 7
                       ELSE RouteOffset(input.routes, i + 1) = at + 7

\* C6 witness: a single route with the 2 params <<7, 2^128>> was serialized.
C6_Witness ==
    /\ op = "AutoSwapprContract::avnu_swap"
    /\ Len(input.routes) = 1
    /\ input.routes[1].additional_swap_params = <<FeltFromNat(7), TWO_128>>
    /\ SubSeq(SentCalldata, 15, 18) =
         <<FeltFromNat(100), FeltFromNat(2), FeltFromNat(7), TWO_128>>

GotWords ==
    /\ Len(responses) = 1
    /\ responses[1].ok

\* C7: get_contract_parameters returns a DeserializationError whenever the
\* answer has fewer than 7 words: no ContractInfo and no panic.
C7_ShortAnswerIsError ==
    (op = "AutoSwapprContract::get_contract_parameters" /\ GotWords
        /\ Len(responses[1].words) < 7) =>
        result = Err("DeserializationError")

\* C7 witness: a 5-word answer was refused.
C7_Witness ==
    /\ op = "AutoSwapprContract::get_contract_parameters"
    /\ GotWords
    /\ Len(responses[1].words) = 5
    /\ result.kind = "Err"
    /\ result.error = "DeserializationError"

ReadsOfOneWord ==
    { "Erc20Contract::allowance", "Erc20Contract::balance_of", "Erc20Contract::decimals",
      "Erc20Contract::symbol", "Erc20Contract::name", "AutoSwappr::get_allowance" }

\* C8 (as claimed): on an empty answer the reads of a token return an error,
\* they do not panic.
C8_Claimed ==
    (op \in ReadsOfOneWord /\ GotWords /\ responses[1].words = <<>>) =>
        result.kind = "Err"

\* C9 (as claimed): get_token_amount_in_usd fails with a DeserializationError
\* when the answer has fewer than 2 words or one of the two limbs does not
\* fit in 128 bits.
C9_Claimed ==
    (op = "AutoSwapprContract::get_token_amount_in_usd" /\ GotWords
        /\ \/ Len(responses[1].words) < 2
           \/ \E i \in 1..2 : ~FitsIn(responses[1].words[i], U128Bytes)) =>
        result = Err("DeserializationError")

\* s is the decimal text of the word w: digits only, no leading zero, and
\* the value they spell, read four digits at a time, is w
IsDecimalOf(s, w) ==
    LET n == Len(s)
        digit(i) == IF i <= n THEN s[n + 1 - i] - 48 ELSE 0
        groups == [k \in 1..((n + 3) \div 4) |->
                      digit(4 * k - 3) + 10 * digit(4 * k - 2)
                          + 100 * digit(4 * k - 1) + 1000 * digit(4 * k)]
    IN  /\ s # <<>>
        /\ \A i \in 1..n : IsDecDigit(s[i])
        /\ n > 1 => s[1] # 48
        /\ Resize(ToBase(groups, 10000, 256), FeltBytes) = w

\* C10: an answer of at least 7 words with word 5 in {0, 1} and word 6 below
\* 2^16 decodes by position: the five addresses are the decimal texts of
\* words 0..4, fee_type is Fixed for 0 and Percentage for 1, percentage_fee is
\* word 6; the words of the test give "12345", Fixed, 100.
C10_PositionalDecode ==
    (op = "AutoSwapprContract::get_contract_parameters" /\ GotWords
        /\ Len(responses[1].words) >= 7
        /\ responses[1].words[6] \in {FeltFromNat(0), FeltFromNat(1)}
        /\ FitsIn(responses[1].words[7], U16Bytes)) =>
        LET w == responses[1].words
            info == result.value
        IN  /\ result.kind = "Ok"
            /\ IsDecimalOf(info.fees_collector, w[1])
            /\ IsDecimalOf(info.fibrous_exchange_address, w[2])
            /\ IsDecimalOf(info.avnu_exchange_address, w[3])
            /\ IsDecimalOf(info.oracle_address, w[4])
            /\ IsDecimalOf(info.owner, w[5])
            /\ info.fee_type = IF w[6] = FeltFromNat(0) THEN "Fixed" ELSE "Percentage"
            /\ FeltFrom(info.percentage_fee) = w[7]
            /\ w = ContractParametersFixture =>
                 /\ info.fees_collector = <<49, 50, 51, 52, 53>>
                 /\ info.owner = <<53, 54, 55, 56, 57>>
                 /\ info.fee_type = "Fixed"
                 /\ info.percentage_fee = NatBytes(100, U16Bytes)

\* C10 witness: the words of the test were decoded.
C10_Witness ==
    /\ op = "AutoSwapprContract::get_contract_parameters"
    /\ GotWords
    /\ responses[1].words = ContractParametersFixture
    /\ result.kind = "Ok"
    /\ result.value.fees_collector = <<49, 50, 51, 52, 53>>

\* C11: FeeType::from_u8 gives Fixed for 0 and Percentage for every byte
\* from 1 to 255; to_u8 gives 0 for Fixed and 1 for Percentage; and
\* from_u8(to_u8(f)) = f for both variants.
C11_FeeTypeBytes ==
    /\ op = "FeeType::from_u8" =>
           result = Ok(IF input.value[1] = 0 THEN "Fixed" ELSE "Percentage")
    /\ op = "FeeType::to_u8" =>
           /\ result = Ok(IF input.self = "Fixed" THEN <<0>> ELSE <<1>>)
           /\ FeeType_from_u8(result.value) = input.self

\* C11 witness: the byte 99 of test_fee_type_enum was read as Percentage.
C11_Witness ==
    /\ op = "FeeType::from_u8"
    /\ input.value = <<99>>
    /\ result.value = "Percentage"

\* C12 (as claimed): for every byte b, the fee_type that
\* get_contract_parameters decodes from an answer whose word 5 is b is
\* FeeType::from_u8(b).
C12_Claimed ==
    (op = "AutoSwapprContract::get_contract_parameters" /\ GotWords
        /\ Len(responses[1].words) >= 7
        /\ FitsIn(responses[1].words[6], U8Bytes)) =>
        /\ result.kind = "Ok"
        /\ result.value.fee_type = FeeType_from_u8(Resize(responses[1].words[6], U8Bytes))

\* the number that the hexadecimal digits of body spell is in the field:
\* read four digits at a time
HexInField(body) ==
    LET n == Len(body)
        digit(i) == IF i <= n THEN HexValue(body[n + 1 - i]) ELSE 0
        groups == [k \in 1..((n + 3) \div 4) |->
                      digit(4 * k - 3) + 16 * digit(4 * k - 2)
                          + 256 * digit(4 * k - 1) + 4096 * digit(4 * k)]
        bytes == ToBase(groups, 65536, 256)
    IN  /\ body # <<>>
        /\ \A i \in 1..n : IsHexDigit(body[i])
        /\ n <= 64
        /\ BytesLt(Resize(bytes, FeltBytes), PRIME)

\* C13: is_valid_address(s) is true exactly when s starts with "0x", has more
\* than 2 characters and the characters after "0x" are hexadecimal digits of
\* a value in the field; it is true for "0x1234" and false for "1234", "0x"
\* and "".
C13_ValidAddress ==
    op = "conversions::is_valid_address" =>
        LET s == input.address
        IN  /\ result.kind = "Ok"
            /\ result.value =
                 (/\ Len(s) > 2
                  /\ s[1] = 48
                  /\ s[2] = 120
                  /\ HexInField(SubSeq(s, 3, Len(s))))
            /\ s = <<48, 120, 49, 50, 51, 52>> => result.value = TRUE
            /\ s \in {<<49, 50, 51, 52>>, <<48, 120>>, <<>>} => result.value = FALSE

\* C13 witness: "1234", hexadecimal digits without the prefix, was refused.
C13_Witness ==
    /\ op = "conversions::is_valid_address"
    /\ input.address = <<49, 50, 51, 52>>
    /\ result.value = FALSE

\* C13 also met "0x1234", accepted, and the prime + 1, refused.
C13_WitnessRange ==
    /\ op = "conversions::is_valid_address"
    /\ input.address = HexOf64(50)
    /\ result.value = FALSE

\* C14: for a word that packs a string of 1 to 8 printable ASCII bytes
\* (codes 32 to 126), first character highest, felt_to_ascii_string returns
\* that string; 0x455448 gives "ETH" and 0x4574686572 gives "Ether".
C14_ShortStringDecoded ==
    op = "conversions::felt_to_ascii_string" =>
        LET felt == input.felt
        IN  /\ \A n \in 1..8 :
                 (/\ \A i \in 1..n : felt[i] >= 32 /\ felt[i] <= 126
                  /\ \A i \in (n + 1)..FeltBytes : felt[i] = 0) =>
                     result = Ok([i \in 1..n |-> felt[n + 1 - i]])
            /\ felt = FeltFromNat(4543560) => result = Ok(<<69, 84, 72>>)
            /\ felt = Resize(<<114, 101, 104, 116, 69>>, FeltBytes) =>
                 result = Ok(<<69, 116, 104, 101, 114>>)

\* C14 witness: the word of "Ether" was decoded.
C14_Witness ==
    /\ op = "conversions::felt_to_ascii_string"
    /\ input.felt = Resize(<<114, 101, 104, 116, 69>>, FeltBytes)
    /\ result.value = <<69, 116, 104, 101, 114>>

\* C15 (as claimed): for a word with no printable low bytes (the zero word,
\* a word whose lowest byte is 0, a word that does not fit in 128 bits)
\* felt_to_ascii_string returns a hexadecimal text of the word, "0x..", and
\* does not panic.
C15_Claimed ==
    (op = "conversions::felt_to_ascii_string"
        /\ (input.felt[1] = 0 \/ ~FitsIn(input.felt, U128Bytes))) =>
        /\ result.kind = "Ok"
        /\ starts_with(result.value, STR_0x)
        /\ from_hex(result.value) = [ok |-> TRUE, value |-> input.felt]

\* the bytes of the two addresses and the two fees of the table
C16_USDC ==
    << 168, 104, 243, 236, 243, 6, 187, 94, 13, 126, 238, 210, 16, 103, 63, 66, 62, 11, 208,
       46, 160, 156, 146, 4, 44, 104, 201, 59, 37, 145, 60, 5 >>

C16_USDT ==
    << 184, 15, 156, 32, 69, 182, 146, 191, 207, 222, 102, 129, 191, 57, 120, 120, 137, 126,
       224, 119, 144, 230, 93, 69, 104, 7, 120, 97, 106, 92, 143, 6 >>

C16_FEE_USDC ==
    << 0, 0, 0, 0, 0, 0, 0, 0, 248, 83, 227, 165, 155, 196, 32, 0 >>

C16_FEE_USDT ==
    << 194, 245, 40, 92, 143, 194, 245, 40, 92, 143, 194, 245, 40, 92, 143, 2 >>

\* C16: PoolKey::new(token0, token1) keeps token0 and token1, has extension
\* zero, and its (fee, tick_spacing) is
\* (170141183460469235273462165868118016, 1000) when token1 is USDC,
\* (3402823669209384634633746074317682114, 19802) when token1 is USDT and
\* (0, 0) otherwise, whatever token0 is.
C16_PoolKeyNew ==
    op = "PoolKey::new" =>
        LET key == result.value
        IN  /\ result.kind = "Ok"
            /\ key.token0 = input.token0
            /\ key.token1 = input.token1
            /\ key.extension = FELT_ZERO
            /\ <<key.fee, key.tick_spacing>> =
                 IF input.token1 = C16_USDC
                 THEN <<C16_FEE_USDC, NatBytes(1000, U128Bytes)>>
                 ELSE IF input.token1 = C16_USDT
                 THEN <<C16_FEE_USDT, NatBytes(19802, U128Bytes)>>
                 ELSE <<Zeros(U128Bytes), Zeros(U128Bytes)>>

\* C16 witness: a key was made for (USDC, USDT): the fee is the one of USDT.
C16_Witness ==
    /\ op = "PoolKey::new"
    /\ input.token0 = C16_USDC
    /\ input.token1 = C16_USDT
    /\ result.value.fee = C16_FEE_USDT
    /\ result.value.tick_spacing = NatBytes(19802, U128Bytes)

\* the call of the contract's ekubo_manual_swap in the transaction that
\* AutoSwappr::ekubo_manual_swap submitted: the last of its calls
SubmittedSwapCall == sent[1].calls[Len(sent[1].calls)]

\* C17 (as claimed): for a token pair that is not in the lookup table no
\* pool key is made with fee and tick_spacing both zero, and no swap that
\* AutoSwappr::ekubo_manual_swap submits carries a pool key with fee = 0
\* and tick_spacing = 0.
C17_Claimed ==
    /\ op = "PoolKey::new" =>
           ~(result.value.fee = Zeros(U128Bytes)
               /\ result.value.tick_spacing = Zeros(U128Bytes))
    /\ (op = "AutoSwappr::ekubo_manual_swap" /\ sent # <<>>) =>
           ~(SubmittedSwapCall.calldata[9] = FELT_ZERO
               /\ SubmittedSwapCall.calldata[10] = FELT_ZERO)

\* C18 (as claimed): no I129 with magnitude 0 and sign = true is made by
\* I129::new or written by the swap serializers: zero has sign = false.
C18_Claimed ==
    /\ op = "I129::new" =>
           ~(result.value.mag = Zeros(U128Bytes) /\ result.value.sign)
    /\ (op \in EkuboOps /\ sent # <<>>) =>
           ~(/\ SentCalldata[1] = FELT_ZERO
             /\ SentCalldata[2] = FELT_ZERO
             /\ SentCalldata[3] = FeltFromNat(1))
    /\ op = "SwapData::encode" =>
           ~(result.value[1] = FELT_ZERO /\ result.value[2] = FeltFromNat(1))


(***************************************************************************)
(* C19, C20: the operations of AutoSwapprClient                            *)
(***************************************************************************)
\* the address strings an operation of the client was called with
AddressArguments ==
    LET of_swap_data(swap_data) ==
            { swap_data.pool_key.token0, swap_data.pool_key.token1,
              swap_data.pool_key.extension, swap_data.caller }
    IN  CASE op = "AutoSwapprClient::get_allowance" ->
                { input.token_address, input.owner, input.spender }
          [] op = "AutoSwapprClient::approve_token" ->
                { input.token_address, input.spender }
          [] op \in { "AutoSwapprClient::get_token_balance",
                      "AutoSwapprClient::get_token_info" } ->
                { input.token_address }
          [] op = "AutoSwapprClient::get_token_amount_in_usd" -> { input.token }
          [] op \in { "AutoSwapprClient::execute_ekubo_manual_swap",
                      "AutoSwapprClient::execute_ekubo_swap" } ->
                of_swap_data(input.swap_data)
          [] op = "AutoSwapprClient::execute_avnu_swap" ->
                { input.protocol_swapper, input.token_from_address,
                  input.token_to_address, input.beneficiary,
                  input.integrator_fee_recipient }
          [] op = "AutoSwapprClient::execute_fibrous_swap" ->
                { input.protocol_swapper, input.beneficiary }
          [] op = "AutoSwapprClient::execute_swap_with_approval" ->
                { input.token_in } \cup of_swap_data(input.swap_data)
          [] OTHER -> {}

\* C19: an operation of AutoSwapprClient that was called with an address
\* string that does not parse returns InvalidInput, and it has made no
\* request to the network and submitted no transaction.
C19_Claimed ==
    (\E address \in AddressArguments : ~from_hex(address).ok)
        => /\ result = Err("InvalidInput")
           /\ requests = <<>>
           /\ sent = <<>>

\* C20: execute_swap_with_approval submits at most two transactions, each of
\* one call; the first is the approve of token_in for the contract; a second
\* is there only when the submission of the first succeeded, and it is the
\* ekubo_manual_swap; when the approve was rejected the operation returns
\* an error and nothing follows it.
C20_ApproveThenSwap ==
    op = "AutoSwapprClient::execute_swap_with_approval"
        => /\ Len(sent) <= 2
           /\ \A i \in 1..Len(sent) : Len(sent[i].calls) = 1
           /\ sent # <<>>
                => /\ sent[1].calls[1].selector = "approve"
                   /\ sent[1].calls[1].to = from_hex(input.token_in).value
                   /\ sent[1].calls[1].calldata[1] = SELF_ADDRESS
           /\ Len(sent) = 2
                => /\ sent[1].accepted
                   /\ sent[2].calls[1].selector = "ekubo_manual_swap"
                   /\ sent[2].calls[1].to = SELF_ADDRESS
           /\ (sent # <<>> /\ ~sent[1].accepted)
                => /\ Len(sent) = 1
                   /\ result = Err("Other")
           /\ (sent # <<>> /\ sent[1].accepted
                    /\ ekubo_manual_swap_calldata(input.swap_data).ok)
                => Len(sent) = 2

\* C20's cases: an approve that was rejected, alone; and an approve that was
\* accepted, followed by the swap
C20_Witness ==
    /\ op = "AutoSwapprClient::execute_swap_with_approval"
    /\ Len(sent) = 2
    /\ sent[1].accepted
    /\ sent[2].accepted
    /\ result = Ok(felt_to_string(TX_HASH))

(***************************************************************************)
(* C21: one request and one transaction per call                           *)
(***************************************************************************)
\* the operations of AutoSwapprClient and of AutoSwappr
ClientOps ==
    { "AutoSwapprClient::get_allowance", "AutoSwapprClient::get_token_balance",
      "AutoSwapprClient::get_token_info", "AutoSwapprClient::get_token_amount_in_usd",
      "AutoSwapprClient::approve_token", "AutoSwapprClient::execute_ekubo_manual_swap",
      "AutoSwapprClient::execute_ekubo_swap", "AutoSwapprClient::execute_avnu_swap",
      "AutoSwapprClient::execute_fibrous_swap",
      "AutoSwapprClient::execute_swap_with_approval",
      "AutoSwappr::get_allowance", "AutoSwappr::ekubo_manual_swap" }

\* C21: one call of an operation of AutoSwapprClient or AutoSwappr makes at
\* most one read request and submits at most one transaction.
C21_Claimed ==
    op \in ClientOps => Len(requests) <= 1 /\ Len(sent) <= 1

(***************************************************************************)
(* C22: AutoSwappr and malformed input                                     *)
(***************************************************************************)
\* C22: no operation of AutoSwappr panics: config returns Err for an empty
\* or malformed RPC URL, account address, private key or contract address,
\* and ekubo_manual_swap returns Err and submits nothing when token0 is not
\* a known token or the allowance read fails.
C22_Claimed ==
    /\ op \in {"AutoSwappr::config", "AutoSwappr::ekubo_manual_swap"}
            => result.kind # "Panic"
    /\ (op = "AutoSwappr::config"
            /\ (\/ ~Url_parse(input.rpc_url)
                \/ ~from_hex(input.account_address).ok
                \/ ~from_hex(input.private_key).ok
                \/ ~from_hex(input.contract_address).ok))
            => result.kind = "Err"
    /\ (op = "AutoSwappr::ekubo_manual_swap"
            /\ input.swap_amount # U128OfNat(0)
            /\ (\/ get_token_info_by_address(input.token0).kind # "Ok"
                \/ get_allowance_of(responses[1]).kind # "Ok"))
            => result.kind = "Err" /\ sent = <<>>

(***************************************************************************)
(* C23: a swap of nothing                                                  *)
(***************************************************************************)
\* C23: ekubo_manual_swap called with swap_amount = 0 returns the error
\* "SWAP AMOUNT IS ZERO", makes no read request and submits no transaction.
C23_ZeroAmount ==
    (op = "AutoSwappr::ekubo_manual_swap" /\ input.swap_amount = U128OfNat(0))
        => /\ result = Err("SWAP AMOUNT IS ZERO")
           /\ requests = <<>>
           /\ responses = <<>>
           /\ sent = <<>>

C23_Witness ==
    /\ op = "AutoSwappr::ekubo_manual_swap"
    /\ input.swap_amount = U128OfNat(0)
    /\ input.token0 = STRK
    /\ input.token1 = USDC
    /\ result.kind = "Err"

(***************************************************************************)
(* C24: the approve bundled with the swap                                  *)
(***************************************************************************)
\* swap_amount * 10^decimals of token0, as a number of any size
ScaledAmount == MulPow10(input.swap_amount,
                         get_token_info_by_address(input.token0).value.decimals)

\* the two words of a 256-bit amount that is below 2^128 * 2^128: its low
\* 128 bits, then its high 128 bits
U256Words(n) ==
    LET bytes == Resize(n, 2 * U128Bytes)
    IN  << FeltFrom(SubSeq(bytes, 1, U128Bytes)),
           FeltFrom(SubSeq(bytes, U128Bytes + 1, 2 * U128Bytes)) >>

\* C24: ekubo_manual_swap with a non-zero amount and a known token0 submits
\* exactly one transaction: the swap call alone when the allowance read is at
\* least the scaled amount, and otherwise the approve of the scaled amount
\* for the router contract followed by the swap call.
C24_Claimed ==
    (/\ op = "AutoSwappr::ekubo_manual_swap"
     /\ input.swap_amount # U128OfNat(0)
     /\ get_token_info_by_address(input.token0).kind = "Ok")
        => /\ Len(sent) = 1
           /\ LET calls == sent[1].calls
                  allowance == get_allowance_of(responses[1]).value
                  enough == ~BytesLt(Resize(allowance, 2 * U128Bytes),
                                     Resize(ScaledAmount, 2 * U128Bytes))
              IN  IF enough
                  THEN /\ Len(calls) = 1
                       /\ calls[1].selector = "ekubo_manual_swap"
                  ELSE /\ Len(calls) = 2
                       /\ calls[1] = Call(input.token0, "approve",
                                          <<CONTRACT_ADDRESS>> \o U256Words(ScaledAmount))
                       /\ calls[2].selector = "ekubo_manual_swap"

(***************************************************************************)
(* C25: the block the allowance is read at                                 *)
(***************************************************************************)
\* C25: in ekubo_manual_swap the allowance read that decides on the approve
\* is made against the pre-confirmed block, the reference having been set
\* in the account before the read.
C25_Claimed ==
    (op = "AutoSwappr::ekubo_manual_swap" /\ requests # <<>>)
        => /\ requests[1].entry_point_selector = "allowance"
           /\ requests[1].block_id = "PreConfirmed"
           /\ block_id = "PreConfirmed"

(***************************************************************************)
(* C26: a write is submitted once                                          *)
(***************************************************************************)
\* the writes of AutoSwapprContract and Erc20Contract
ContractWriteOps ==
    { "Erc20Contract::approve", "AutoSwapprContract::ekubo_swap",
      "AutoSwapprContract::ekubo_manual_swap", "AutoSwapprContract::avnu_swap",
      "AutoSwapprContract::fibrous_swap", "AutoSwapprContract::set_fee_type",
      "AutoSwapprContract::support_new_token_from",
      "AutoSwapprContract::remove_token_from" }

\* C26: a write of AutoSwapprContract or Erc20Contract hands at most one
\* transaction to the signer; when the signer fails the write returns
\* AccountError and nothing is submitted again, and when it succeeds the
\* write returns the hash of that one transaction.
C26_NoRetry ==
    op \in ContractWriteOps
        => /\ Len(sent) <= 1
           /\ requests = <<>>
           /\ sent # <<>>
                => /\ Len(sent[1].calls) = 1
                   /\ IF sent[1].accepted THEN result = Ok(TX_HASH)
                      ELSE result = Err("AccountError")

\* a write whose submission the signer refused
C26_Witness ==
    /\ op \in ContractWriteOps
    /\ Len(sent) = 1
    /\ ~sent[1].accepted
    /\ result = Err("AccountError")

(***************************************************************************)
(* C27: writes in flight together                                          *)
(***************************************************************************)
\* C27: the client does not serialize its writes.  A caller that has not
\* called can start a write whatever the other caller's write is doing; two
\* writes that have both read the nonce and not yet submitted hold the same
\* nonce; and of two transactions submitted with the same nonce the chain
\* takes at most one.
C27_NoSerialization ==
    /\ \A c \in Callers : inflight[c].pc = "idle" => ENABLED Client_call(c)
    /\ \A c, d \in Callers :
            (inflight[c].pc = "prepared" /\ inflight[d].pc = "prepared")
                => inflight[c].nonce = inflight[d].nonce
    /\ \A c, d \in Callers :
            (/\ c # d
             /\ inflight[c].pc = "returned" /\ inflight[d].pc = "returned"
             /\ inflight[c].nonce = inflight[d].nonce)
                => inflight[c].result.kind = "Err" \/ inflight[d].result.kind = "Err"

\* approve_token and execute_ekubo_swap were in flight together, read the
\* same nonce and were both submitted with it
C27_Witness ==
    /\ inflight[1].operation = "AutoSwapprClient::approve_token"
    /\ inflight[2].operation = "AutoSwapprClient::execute_ekubo_swap"
    /\ inflight[1].pc = "returned"
    /\ inflight[2].pc = "returned"
    /\ inflight[1].nonce = inflight[2].nonce
    /\ Len(requests) = 2
    /\ Len(sent) = 2
    /\ sent[1].accepted
    /\ ~sent[2].accepted

(***************************************************************************)
(* C28: the scaled amount                                                  *)
(***************************************************************************)
\* the amount and the token a swap of AutoSwappr was called with
SwapAmountAsked == IF op = "AutoSwappr::ekubo_manual_swap" THEN input.swap_amount
                   ELSE input.amount
SwapTokenAsked == IF op = "AutoSwappr::ekubo_manual_swap" THEN input.token0
                  ELSE input.token_from

\* swap_amount * 10^decimals, the number, on 32 bytes
ProductAsked ==
    Resize(MulPow10(SwapAmountAsked,
                    get_token_info_by_address(SwapTokenAsked).value.decimals),
           FeltBytes)

\* C28: in ekubo_manual_swap and _ekubo_auto_swap, for a non-zero amount and
\* a known token, swap_amount * 10^decimals is below 2^128: the operation
\* does not stop on the multiplication, the amount of the swap call is the
\* product, and so is the amount the backend is told.
C28_Claimed ==
    (/\ op \in {"AutoSwappr::ekubo_manual_swap", "AutoSwappr::_ekubo_auto_swap"}
     /\ SwapAmountAsked # U128OfNat(0)
     /\ get_token_info_by_address(SwapTokenAsked).kind = "Ok")
        => /\ FitsIn(ProductAsked, U128Bytes)
           /\ (op = "AutoSwappr::ekubo_manual_swap" /\ sent # <<>>)
                => LET calls == sent[1].calls
                   IN  calls[Len(calls)].calldata[1] = ProductAsked
           /\ (op = "AutoSwappr::_ekubo_auto_swap" /\ requests # <<>>)
                => requests[1].json.swap_amount = felt_to_string(ProductAsked)

(***************************************************************************)
(* C29: the high limb of an amount                                         *)
(***************************************************************************)
\* the high limbs an amount is given in turn
OtherHighs == {Zeros(U128Bytes), U128_MAX}

C30_FirstWordOnly ==
    (/\ op \in {"AutoSwapprClient::get_token_balance", "AutoSwapprClient::get_allowance"}
     /\ requests # <<>>
     /\ responses[1].ok
     /\ responses[1].words # <<>>)
        => LET word == responses[1].words[1]
           IN  result = Ok(IF FitsIn(word, U128Bytes) THEN Resize(word, U128Bytes)
                           ELSE Zeros(U128Bytes))

\* a balance answered with two words, (2^64, anything) being read as 2^64,
\* and one answered 2^128 being read as 0
C30_Witness ==
    /\ op = "AutoSwapprClient::get_token_balance"
    /\ responses # <<>>
    /\ responses[1].ok
    /\ Len(responses[1].words) = 2
    /\ result = Ok(U128OfNat(1))

====
